---- MODULE Spec2Model ----
(***************************************************************************)
(* Feature-engineering and validation pipeline of the CHFS 2017            *)
(* siblings / household-leverage analysis: interval-code midpoints,        *)
(* exact/interval coalescing, totals, debt ratio with winsorisation,       *)
(* head/household merge and the schema validator.                          *)
(***************************************************************************)
EXTENDS Integers, Sequences, FiniteSets, TLC

VARIABLES
    pc,             \* position of the run in the operation under study
    interval_code,  \* get_midpoint: argument interval_code
    var_name,       \* get_midpoint: argument var_name
    midpoint,       \* get_midpoint: returned value
    df,             \* the DataFrame threaded through the feature stages
    cfg,            \* Settings
    debt_cols,      \* coalesce_all: names of the coalesced debt columns
    asset_cols,     \* coalesce_all: names of the coalesced asset columns
    head_df,        \* the head records handed to the merge
    n_hh,           \* run_pipeline: n_hh = len(hh_df) at load time
    error,          \* the exception that ended the run, "" while none has
    schema,         \* the ColumnSchema objects constructed so far, in order
    attempt,        \* the ColumnSchema whose construction ran last, if any
    report,         \* the ValidationReport validate returned, if any
    ind_df,         \* the individual-level table handed to extract_heads
    head_index,     \* the index of head_df: the ind_df row of each head record
    head_log,       \* the log records of extract_heads, in order
    analysis_df,    \* run_pipeline: the analysis table, <<>> before selection
    model_specs,    \* run_all: the list of ModelSpec objects
    results,        \* run_all: the results collected so far, in order
    n_run,          \* run_all: the number of specs the loop has processed
    run_log,        \* the ERROR records of run_model: <<spec name, message>>
    warnings        \* the WARNING records logged so far, in order

midpoint_vars == <<interval_code, var_name, midpoint>>
feature_vars == <<df, cfg, debt_cols, asset_cols>>
merge_vars == <<head_df, n_hh, error>>
validate_vars == <<schema, attempt, report, analysis_df>>
loader_vars == <<ind_df, head_index, head_log>>
runner_vars == <<model_specs, results, n_run, run_log>>
vars == <<pc, midpoint_vars, feature_vars, merge_vars, validate_vars, loader_vars, runner_vars,
          warnings>>

(***************************************************************************)
(* Floating-point values.  A float is a record [n, d]: d > 0 is the finite *)
(* number n/d in lowest terms, d = 0 is NaN (n = 0), +inf (n = 1) or       *)
(* -inf (n = -1).  Arithmetic is exact; NaN propagates and compares false. *)
(* The result of np.log on a positive finite number is kept as the term    *)
(* [ln_of, plus], the logarithm of ln_of + plus: it is finite, and it is   *)
(* ordered by its argument (ln y < 0 iff y < 1, ln a < ln b iff a < b).    *)
(***************************************************************************)
Abs(i) == IF i < 0 THEN -i ELSE i

RECURSIVE GCD(_, _)
GCD(a, b) == IF b = 0 THEN a ELSE GCD(b, a % b)

Sign(i) == IF i > 0 THEN 1 ELSE IF i < 0 THEN -1 ELSE 0

\* a/b for integers a, b; b = 0 gives NaN or a signed infinity
Rat(a, b) ==
    IF b = 0 THEN [n |-> Sign(a), d |-> 0]
    ELSE LET g == GCD(Abs(a), Abs(b))
             s == IF b < 0 THEN -1 ELSE 1
         IN  [n |-> (s * a) \div g, d |-> (s * b) \div g]

Num(i) == [n |-> i, d |-> 1]

NaN == [n |-> 0, d |-> 0]
PosInf == [n |-> 1, d |-> 0]
NegInf == [n |-> -1, d |-> 0]

\* x is the logarithm of a positive finite number
IsLog(x) == "ln_of" \in DOMAIN x

IsNaN(x) == ~IsLog(x) /\ x.d = 0 /\ x.n = 0
IsInf(x) == ~IsLog(x) /\ x.d = 0 /\ x.n # 0
IsFinite(x) == IsLog(x) \/ x.d > 0

\* a/b < c/d for b, d > 0, by continued fractions (no products, so the
\* comparison stays inside the integer range)
RECURSIVE LtFrac(_, _, _, _)
LtFrac(a, b, c, d) ==
    IF a \div b # c \div d THEN a \div b < c \div d
    ELSE IF c % d = 0 THEN FALSE
    ELSE IF a % b = 0 THEN TRUE
    ELSE LtFrac(d, c % d, b, a % b)

\* x < y for two numbers, neither of them NaN
LtNum(x, y) ==
    IF x.d = 0 \/ y.d = 0
    THEN (IF x.d = 0 THEN x.n ELSE 0) < (IF y.d = 0 THEN y.n ELSE 0)
    ELSE LtFrac(x.n, x.d, y.n, y.d)

\* the number e^y for the numbers a logarithm is compared with: 0 and the
\* infinities
ExpOf(y) == IF y = Num(0) THEN Num(1) ELSE IF y = PosInf THEN PosInf ELSE Num(0)

\* x < y; false when either side is NaN.  ln a < y iff a < e^y.
Lt(x, y) ==
    /\ ~IsNaN(x)
    /\ ~IsNaN(y)
    /\ LET arg(z) == LET a == z.ln_of
                         c == z.plus
                     IN  IF a.d = 0 THEN a
                         ELSE [n |-> a.n * c.d + c.n * a.d, d |-> a.d * c.d]
       IN  IF IsLog(x) /\ IsLog(y) THEN LtNum(arg(x), arg(y))
           ELSE IF IsLog(x) /\ y \in {Num(0), PosInf, NegInf} THEN LtNum(arg(x), ExpOf(y))
           ELSE IF IsLog(y) /\ x \in {Num(0), PosInf, NegInf} THEN LtNum(ExpOf(x), arg(y))
           ELSE LtNum(x, y)

Le(x, y) == ~IsNaN(x) /\ ~IsNaN(y) /\ ~Lt(y, x)
Gt(x, y) == Lt(y, x)
Ge(x, y) == Le(y, x)
\* x == y as floats (NaN == NaN is false)
Eq(x, y) == ~IsNaN(x) /\ x = y

Add(x, y) ==
    IF IsNaN(x) \/ IsNaN(y) THEN NaN
    ELSE IF x.d = 0 /\ y.d = 0 THEN (IF x.n = y.n THEN x ELSE NaN)
    ELSE IF x.d = 0 THEN x
    ELSE IF y.d = 0 THEN y
    ELSE Rat(x.n * y.d + y.n * x.d, x.d * y.d)

Neg(x) == [n |-> -x.n, d |-> x.d]
Sub(x, y) == Add(x, Neg(y))

\* x / y with IEEE results for zero and infinite operands
Div(x, y) ==
    IF IsNaN(x) \/ IsNaN(y) THEN NaN
    ELSE IF x.d = 0 /\ y.d = 0 THEN NaN
    ELSE IF y.d = 0 THEN Num(0)
    ELSE IF x.d = 0 THEN (IF y.n < 0 THEN Neg(x) ELSE x)
    ELSE Rat(x.n * y.d, x.d * y.n)

\* int(x) for a finite float: truncation towards zero
int(x) == Sign(x.n) * (Abs(x.n) \div x.d)

(***************************************************************************)
(* Interval-to-midpoint tables (src/data/midpoint_tables.py).              *)
(* Keys are interval codes, values midpoints in CNY (sqm for _MAP_6).      *)
(***************************************************************************)
_MAP_1 ==
    1 :> Num(5000) @@ 2 :> Num(20000) @@ 3 :> Num(40000) @@ 4 :> Num(60000) @@
    5 :> Num(85000) @@ 6 :> Num(200000) @@ 7 :> Num(400000) @@ 8 :> Num(750000) @@
    9 :> Num(3000000) @@ 10 :> Num(7500000) @@ 11 :> Num(15000000)

_VARS_1 == {
    "b2003ait", "b2050it", "b2059it", "b2063it", "b2080it", "d3109it",
    "d3110it", "d4103it", "d5107it", "d5108it", "d6100ait", "d8104it",
    "d9103it", "d9110ait", "k2102cit", "c3019ait"
}

_MAP_2 == _MAP_1

_VARS_2 == {
    "b2003bit", "b2052it"
}

_MAP_3 ==
    1 :> Num(5000) @@ 2 :> Num(15000) @@ 3 :> Num(35000) @@ 4 :> Num(75000) @@
    5 :> Num(150000) @@ 6 :> Num(250000) @@ 7 :> Num(400000) @@ 8 :> Num(750000) @@
    9 :> Num(1500000) @@ 10 :> Num(3500000) @@ 11 :> Num(7500000)

_VARS_3 == {
    "b2003eit", "b2055it", "a3136it", "d3117it", "b2046it", "b3004bit",
    "b3005bit", "b3005it", "b3006ait", "b3030dit", "b3030eit", "b3031ait",
    "b3045cit", "b3056ait", "c3017cait", "c3019cit", "c3019eit", "c7052bit",
    "c7060it", "c7061it", "c7062it", "c8007it", "d1105it", "d2104it",
    "d3103it", "d7106hit", "d7110ait", "e1006it", "e1022it", "e3003cit",
    "e4003it", "h2004it", "c2035ait"
}

_MAP_4 ==
    1 :> Num(2500) @@ 2 :> Num(7500) @@ 3 :> Num(15000) @@ 4 :> Num(35000) @@
    5 :> Num(75000) @@ 6 :> Num(125000) @@ 7 :> Num(175000) @@ 8 :> Num(250000) @@
    9 :> Num(400000) @@ 10 :> Num(750000) @@ 11 :> Num(1500000)

_VARS_4 == {
    "b2093it", "a3136ait", "a3136bit", "a3137it", "b2110it", "d5109it",
    "d7106jit", "d7112it", "d9105it", "d9108it", "d9110bit", "k1101it",
    "k2208it", "f1010it", "f1031it"
}

_MAP_5 ==
    1 :> Num(500) @@ 2 :> Num(1500) @@ 3 :> Num(3500) @@ 4 :> Num(7500) @@
    5 :> Num(15000) @@ 6 :> Num(35000) @@ 7 :> Num(75000) @@ 8 :> Num(150000)

_VARS_5 == {
    "b3008fit"
}

_MAP_6 ==
    1 :> Num(25) @@ 2 :> Rat(121, 2) @@ 3 :> Rat(161, 2) @@ 4 :> Rat(191, 2) @@
    5 :> Rat(221, 2) @@ 6 :> Num(132) @@ 7 :> Num(172) @@ 8 :> Num(300)

_VARS_6 == {
    "c1000bbit"
}

_MAP_7 ==
    1 :> Num(50000) @@ 2 :> Num(200000) @@ 3 :> Num(400000) @@ 4 :> Num(600000) @@
    5 :> Num(850000) @@ 6 :> Num(1250000) @@ 7 :> Num(2250000) @@ 8 :> Num(4000000) @@
    9 :> Num(6000000) @@ 10 :> Num(8500000) @@ 11 :> Num(12500000) @@ 12 :> Num(17500000) @@
    13 :> Num(30000000)

_VARS_7 == {
    "c1000bdit"
}

_MAP_8 ==
    1 :> Num(5000) @@ 2 :> Num(15000) @@ 3 :> Num(35000) @@ 4 :> Num(75000) @@
    5 :> Num(150000) @@ 6 :> Num(250000) @@ 7 :> Num(400000) @@ 8 :> Num(750000) @@
    9 :> Num(1500000) @@ 10 :> Num(3500000) @@ 11 :> Num(6000000) @@ 12 :> Num(8500000) @@
    13 :> Num(12500000) @@ 14 :> Num(17500000) @@ 15 :> Num(30000000)

_VARS_8 == {
    "c2000fit"
}

_MAP_9 ==
    1 :> Num(5000) @@ 2 :> Num(20000) @@ 3 :> Num(40000) @@ 4 :> Num(60000) @@
    5 :> Num(85000) @@ 6 :> Num(200000) @@ 7 :> Num(400000) @@ 8 :> Num(750000) @@
    9 :> Num(3000000) @@ 10 :> Num(7500000) @@ 11 :> Num(12500000) @@ 12 :> Num(17500000) @@
    13 :> Num(30000000)

_VARS_9 == {
    "c2013it", "c2016it"
}

_MAP_10 ==
    1 :> Num(50000) @@ 2 :> Num(150000) @@ 3 :> Num(350000) @@ 4 :> Num(650000) @@
    5 :> Num(900000) @@ 6 :> Num(1250000) @@ 7 :> Num(1750000) @@ 8 :> Num(3500000) @@
    9 :> Num(6500000) @@ 10 :> Num(9000000) @@ 11 :> Num(15000000)

_VARS_10 == {
    "c2027dit", "c2032it", "c2064it"
}

_MAP_11 ==
    1 :> Num(500) @@ 2 :> Num(2000) @@ 3 :> Num(4000) @@ 4 :> Num(6500) @@
    5 :> Num(9000) @@ 6 :> Num(12500) @@ 7 :> Num(17500) @@ 8 :> Num(25000) @@
    9 :> Num(40000) @@ 10 :> Num(75000)

_VARS_11 == {
    "c2045it"
}

_MAP_12 ==
    1 :> Num(25000) @@ 2 :> Num(75000) @@ 3 :> Num(150000) @@ 4 :> Num(250000) @@
    5 :> Num(400000) @@ 6 :> Num(650000) @@ 7 :> Num(900000) @@ 8 :> Num(1250000) @@
    9 :> Num(1750000) @@ 10 :> Num(3500000) @@ 11 :> Num(7500000)

_VARS_12 == {
    "c3002it", "c3002ait"
}

_MAP_13 ==
    1 :> Num(5000) @@ 2 :> Num(15000) @@ 3 :> Num(35000) @@ 4 :> Num(75000) @@
    5 :> Num(150000) @@ 6 :> Num(250000) @@ 7 :> Num(400000) @@ 8 :> Num(750000) @@
    9 :> Num(1500000) @@ 10 :> Num(3500000) @@ 11 :> Num(7500000)

_VARS_13 == {
    "c3024it", "c3025it", "d4111it", "d6116it"
}

_MAP_14 ==
    1 :> Num(1000) @@ 2 :> Num(3500) @@ 3 :> Num(7500) @@ 4 :> Num(15000) @@
    5 :> Num(35000) @@ 6 :> Num(75000) @@ 7 :> Num(125000) @@ 8 :> Num(175000) @@
    9 :> Num(250000) @@ 10 :> Num(400000) @@ 11 :> Num(750000)

_VARS_14 == {
    "c8002ait", "g1017it", "g1018it", "g1019it", "g1019ait", "g1020it",
    "c8005ait", "f2006it", "f4011it"
}

_MAP_15 ==
    1 :> Num(10000) @@ 2 :> Num(35000) @@ 3 :> Num(75000) @@ 4 :> Num(150000) @@
    5 :> Num(350000) @@ 6 :> Num(750000) @@ 7 :> Num(1500000) @@ 8 :> Num(3500000) @@
    9 :> Num(7500000) @@ 10 :> Num(15000000) @@ 11 :> Num(30000000)

_VARS_15 == {
    "d8106it"
}

_MAP_16 ==
    1 :> Num(5000) @@ 2 :> Num(15000) @@ 3 :> Num(35000) @@ 4 :> Num(75000) @@
    5 :> Num(150000) @@ 6 :> Num(250000) @@ 7 :> Num(400000) @@ 8 :> Num(750000) @@
    9 :> Num(1500000) @@ 10 :> Num(3500000) @@ 11 :> Num(7500000)

_VARS_16 == {
    "e3005cit"
}

_MAP_17 ==
    1 :> Num(25) @@ 2 :> Num(75) @@ 3 :> Num(125) @@ 4 :> Num(225) @@
    5 :> Num(400) @@ 6 :> Num(650) @@ 7 :> Num(1150) @@ 8 :> Num(2250) @@
    9 :> Num(4000) @@ 10 :> Num(7500) @@ 11 :> Num(15000) @@ 12 :> Num(25000) @@
    13 :> Num(40000) @@ 14 :> Num(75000)

_VARS_17 == {
    "f1005it"
}

_MAP_18 ==
    1 :> Num(100) @@ 2 :> Num(250) @@ 3 :> Num(400) @@ 5 :> Num(750) @@
    6 :> Num(1500) @@ 7 :> Num(2500) @@ 8 :> Num(4000) @@ 9 :> Num(6500) @@
    10 :> Num(11500) @@ 11 :> Num(17500) @@ 12 :> Num(30000)

_VARS_18 == {
    "f4005it"
}

_MAP_19 ==
    1 :> Num(500) @@ 2 :> Num(2000) @@ 3 :> Num(4000) @@ 5 :> Num(7500) @@
    6 :> Num(15000) @@ 7 :> Num(35000) @@ 8 :> Num(75000) @@ 9 :> Num(125000) @@
    10 :> Num(175000) @@ 11 :> Num(250000) @@ 12 :> Num(400000) @@ 13 :> Num(750000) @@
    14 :> Num(1500000)

_VARS_19 == {
    "f4008it"
}

_MAP_20 ==
    1 :> Num(250) @@ 2 :> Num(750) @@ 3 :> Num(1500) @@ 4 :> Num(3500) @@
    5 :> Num(7500) @@ 6 :> Num(15000) @@ 7 :> Num(30000)

_VARS_20 == {
    "h3351it"
}

_MAP_21 ==
    1 :> Num(250) @@ 2 :> Num(750) @@ 3 :> Num(2000) @@ 4 :> Num(4000) @@
    5 :> Num(7500) @@ 6 :> Num(15000) @@ 7 :> Num(35000) @@ 8 :> Num(75000)

_VARS_21 == {
    "h3354it", "h3356it"
}

_MAP_22 ==
    1 :> Num(50) @@ 2 :> Num(300) @@ 3 :> Num(750) @@ 4 :> Num(3000) @@
    5 :> Num(7500) @@ 6 :> Num(30000) @@ 7 :> Num(75000)

_VARS_22 == {
    "h3367it", "h3368it", "h3369it"
}

_MAP_23 ==
    1 :> Num(150) @@ 2 :> Num(450) @@ 3 :> Num(800) @@ 4 :> Num(1250) @@
    5 :> Num(2250) @@ 6 :> Num(4500) @@ 7 :> Num(8000) @@ 8 :> Num(15000) @@
    9 :> Num(35000) @@ 10 :> Num(75000) @@ 11 :> Num(150000)

_VARS_23 == {
    "g1024it"
}

\* Registration order of (variable set, table) pairs
_REGISTRY == <<
    <<_VARS_1, _MAP_1>>, <<_VARS_2, _MAP_2>>, <<_VARS_3, _MAP_3>>,
    <<_VARS_4, _MAP_4>>, <<_VARS_5, _MAP_5>>, <<_VARS_6, _MAP_6>>,
    <<_VARS_7, _MAP_7>>, <<_VARS_8, _MAP_8>>, <<_VARS_9, _MAP_9>>,
    <<_VARS_10, _MAP_10>>, <<_VARS_11, _MAP_11>>, <<_VARS_12, _MAP_12>>,
    <<_VARS_13, _MAP_13>>, <<_VARS_14, _MAP_14>>, <<_VARS_15, _MAP_15>>,
    <<_VARS_16, _MAP_16>>, <<_VARS_17, _MAP_17>>, <<_VARS_18, _MAP_18>>,
    <<_VARS_19, _MAP_19>>, <<_VARS_20, _MAP_20>>, <<_VARS_21, _MAP_21>>,
    <<_VARS_22, _MAP_22>>, <<_VARS_23, _MAP_23>>
>>

\* {base_var_name: map_dict}; a later registration replaces an earlier one
_VAR_TO_MAP ==
    [v \in UNION {_REGISTRY[i][1] : i \in DOMAIN _REGISTRY} |->
        LET last == CHOOSE i \in DOMAIN _REGISTRY :
                        /\ v \in _REGISTRY[i][1]
                        /\ \A j \in DOMAIN _REGISTRY : v \in _REGISTRY[j][1] => j <= i
        IN  _REGISTRY[last][2]]

Digits == {"0", "1", "2", "3", "4", "5", "6", "7", "8", "9"}

\* str.isdigit(): non-empty and every character a digit
isdigit(s) == Len(s) > 0 /\ \A i \in 1..Len(s) : SubSeq(s, i, i) \in Digits

\* position of the last "_" of s, 0 when there is none (str.rsplit("_", 1))
LastUnderscore(s) ==
    LET at == {i \in 1..Len(s) : SubSeq(s, i, i) = "_"}
    IN  IF at = {} THEN 0 ELSE CHOOSE i \in at : \A j \in at : j <= i

\* a variant that strips the suffix only when it is a single digit
_normalise_one_digit(name) ==
    LET k == LastUnderscore(name)
    IN  IF k > 0 /\ k + 1 = Len(name) /\ isdigit(SubSeq(name, k + 1, Len(name)))
        THEN SubSeq(name, 1, k - 1)
        ELSE name

\* Strip trailing _N suffix for indexed variables like "c2016it_1"
_normalise_var_name(name) ==
    LET k == LastUnderscore(name)
    IN  IF k > 0 /\ isdigit(SubSeq(name, k + 1, Len(name)))
        THEN SubSeq(name, 1, k - 1)
        ELSE name

\* Resolve an interval code to a midpoint; NaN if it cannot be resolved
get_midpoint(code, name) ==
    IF IsNaN(code) THEN NaN
    ELSE LET base == _normalise_var_name(name)
         IN  IF base \notin DOMAIN _VAR_TO_MAP THEN NaN
             ELSE LET mapping == _VAR_TO_MAP[base]
                  IN  IF int(code) \in DOMAIN mapping
                      THEN mapping[int(code)]
                      ELSE NaN

(***************************************************************************)
(* Variable catalogue (src/data/variables.py).                             *)
(***************************************************************************)
\* interval: str | None = None
None == "<None>"

\* One survey variable, optionally paired with an interval counterpart
VarSpec(exact, interval) == [exact |-> exact, interval |-> interval]

\* Column name after exact / interval coalescing
coalesced_name(spec) == spec.exact \o "_val"

\* f"{stem}_{i}"
Indexed(stem, i) == stem \o "_" \o ToString(i)

DEBT_BUSINESS_BANK == <<VarSpec("b3005b_2", None)>>
DEBT_BUSINESS_PRIVATE == <<VarSpec("b3031a_2", "b3031ait_2")>>
DEBT_HOUSE_BANK == [i \in 1..6 |-> VarSpec(Indexed("c2064", i), Indexed("c2064it", i))]
DEBT_HOUSE_OTHER == [i \in 1..6 |-> VarSpec(Indexed("c3002a", i), Indexed("c3002ait", i))]
DEBT_HOUSE_AGG_OTHER == <<VarSpec("c2023e", "c2023eit")>>
DEBT_HOUSE_COLLATERAL == <<VarSpec("c3017ca", "c3017cait")>>
DEBT_SHOP_BANK == <<VarSpec("c3019c", "c3019cit")>>
DEBT_SHOP_OTHER == <<VarSpec("c3019e", "c3019eit")>>
DEBT_CAR == <<VarSpec("c7060", "c7060it")>>
DEBT_VEHICLE_OTHER == <<VarSpec("c7061", "c7061it")>>
DEBT_DURABLE == <<VarSpec("c8007", "c8007it")>>
DEBT_STOCK == <<VarSpec("d3116b", None)>>
DEBT_FINANCE_OTHER == <<VarSpec("d9108", "d9108it")>>
DEBT_EDU_BANK == <<VarSpec("e1006", "e1006it")>>
DEBT_EDU_PRIVATE == <<VarSpec("e1022", "e1022it")>>
DEBT_MEDICAL == <<VarSpec("e4003", "e4003it")>>
DEBT_OTHER == <<VarSpec("e3003c", "e3003cit")>>

ALL_DEBT_VARS ==
    DEBT_BUSINESS_BANK \o DEBT_BUSINESS_PRIVATE \o DEBT_HOUSE_BANK
    \o DEBT_HOUSE_OTHER \o DEBT_HOUSE_AGG_OTHER \o DEBT_HOUSE_COLLATERAL
    \o DEBT_SHOP_BANK \o DEBT_SHOP_OTHER \o DEBT_CAR \o DEBT_VEHICLE_OTHER
    \o DEBT_DURABLE \o DEBT_STOCK \o DEBT_FINANCE_OTHER \o DEBT_EDU_BANK
    \o DEBT_EDU_PRIVATE \o DEBT_MEDICAL \o DEBT_OTHER

ASSET_BUSINESS == <<VarSpec("b2003d", "b2003dit")>>
ASSET_HOUSE == [i \in 1..6 |-> VarSpec(Indexed("c2016", i), Indexed("c2016it", i))]
ASSET_HOUSE_AGG_OTHER == <<VarSpec("c2023d", "c2023dit")>>
ASSET_SHOP == <<VarSpec("c3019a", "c3019ait")>>
ASSET_CAR == <<VarSpec("c7052b", "c7052bit")>>
ASSET_VEHICLE_COMM == <<VarSpec("c7059", None)>>
ASSET_VEHICLE_OTHER == <<VarSpec("c7058", None)>>
ASSET_VEHICLE_IN_BUSINESS == VarSpec("c7062", "c7062it")
ASSET_DURABLE == <<VarSpec("c8002", None)>>
ASSET_OTHER_NONFIN == <<VarSpec("c8005", None)>>
ASSET_DEPOSIT_CHECKING == <<VarSpec("d1105", "d1105it")>>
ASSET_DEPOSIT_SAVINGS == <<VarSpec("d2104", "d2104it")>>
ASSET_STOCK_CASH == <<VarSpec("d3103", "d3103it")>>
ASSET_STOCK_VALUE == <<VarSpec("d3109", "d3109it")>>
ASSET_STOCK_NONPUBLIC == <<VarSpec("d3116", "d3116it")>>
ASSET_FUND == <<VarSpec("d5107", "d5107it")>>
ASSET_INTERNET_FINANCE == <<VarSpec("d7106h", "d7106hit")>>
ASSET_OTHER_FINANCE_PROD == <<VarSpec("d7110a", "d7110ait")>>
ASSET_BOND == [i \in 1..5 |-> VarSpec(Indexed("d4103", i), Indexed("d4103it", i))]
ASSET_DERIVATIVE == <<VarSpec("d6100a", "d6100ait")>>
ASSET_NON_RMB == <<VarSpec("d8104", "d8104it")>>
ASSET_GOLD == <<VarSpec("d9103", "d9103it")>>
ASSET_OTHER_FIN == <<VarSpec("d9110a", "d9110ait")>>
ASSET_CASH == <<VarSpec("k1101", "k1101it")>>
ASSET_RECEIVABLE == <<VarSpec("k2102c", "k2102cit")>>

ALL_ASSET_VARS ==
    ASSET_BUSINESS \o ASSET_HOUSE \o ASSET_HOUSE_AGG_OTHER \o ASSET_SHOP
    \o ASSET_CAR \o ASSET_VEHICLE_COMM \o ASSET_VEHICLE_OTHER \o ASSET_DURABLE
    \o ASSET_OTHER_NONFIN \o ASSET_DEPOSIT_CHECKING \o ASSET_DEPOSIT_SAVINGS
    \o ASSET_STOCK_CASH \o ASSET_STOCK_VALUE \o ASSET_STOCK_NONPUBLIC
    \o ASSET_FUND \o ASSET_INTERNET_FINANCE \o ASSET_OTHER_FINANCE_PROD
    \o ASSET_BOND \o ASSET_DERIVATIVE \o ASSET_NON_RMB \o ASSET_GOLD
    \o ASSET_OTHER_FIN \o ASSET_CASH \o ASSET_RECEIVABLE

\* every VarSpec the feature stages touch
CatalogueSpecs ==
    {ALL_DEBT_VARS[i] : i \in DOMAIN ALL_DEBT_VARS}
    \cup {ALL_ASSET_VARS[i] : i \in DOMAIN ALL_ASSET_VARS}
    \cup {ASSET_VEHICLE_IN_BUSINESS}

(***************************************************************************)
(* Settings (src/config.py): the analysis parameters the stages read.      *)
(***************************************************************************)
survey_year == 2017
head_min_age == 16
sibling_max_age == 40
\* winsorize_limits: tuple[float, float] = (0.01, 0.01)
winsorize_limits == <<Rat(1, 100), Rat(1, 100)>>
\* epsilon: float = 1e-9
epsilon == Rat(1, 1000000000)
\* log_dv_constant: float = 0.001
log_dv_constant == Rat(1, 1000)

Settings ==
    [survey_year |-> survey_year,
     head_min_age |-> head_min_age,
     sibling_max_age |-> sibling_max_age,
     winsorize_limits |-> winsorize_limits,
     epsilon |-> epsilon,
     log_dv_constant |-> log_dv_constant,
     head_control_vars |-> <<"head_age", "head_is_male", "head_educ", "head_is_married",
                             "head_health">>,
     hh_control_vars |-> <<"has_business", "num_houses", "log_total_assets">>]

(***************************************************************************)
(* get_midpoint as an operation: one call on drawn arguments.              *)
(***************************************************************************)
\* largest interval code tried; the tables' keys end at 15
MaxCode == 16

\* interval codes tried: NaN and the multiples of 1/2 from -1 to MaxCode
Codes == {NaN} \cup {Rat(k, 2) : k \in -2..(2 * MaxCode)}

\* names that no table registers, with and without an index suffix
UnregisteredNames == {"nonexistent_var", "c2023eit", "hhid", "d1105", "d1105it_", "d1105it_x1"}

\* variable names tried: registered base names, the catalogue's interval
\* columns, indexed forms of base names and unregistered names
VarNames ==
    DOMAIN _VAR_TO_MAP
    \cup {s.interval : s \in {t \in CatalogueSpecs : t.interval # None}}
    \cup {Indexed(b, 12) : b \in {"c2016it", "f4005it", "c1000bbit"}}
    \cup UnregisteredNames

InitMidpoint ==
    /\ pc = "call"
    /\ interval_code \in Codes
    /\ var_name \in VarNames
    /\ midpoint = NaN
    /\ df = <<>>
    /\ cfg = Settings
    /\ debt_cols = <<>>
    /\ asset_cols = <<>>
    /\ head_df = <<>>
    /\ n_hh = 0
    /\ error = ""
    /\ schema = <<>>
    /\ attempt = <<>>
    /\ report = <<>>
    /\ analysis_df = <<>>
    /\ model_specs = <<>>
    /\ results = <<>>
    /\ n_run = 0
    /\ run_log = <<>>
    /\ ind_df = <<>>
    /\ head_index = <<>>
    /\ head_log = <<>>
    /\ warnings = <<>>

GetMidpoint ==
    /\ pc = "call"
    /\ midpoint' = get_midpoint(interval_code, var_name)
    /\ pc' = "done"
    /\ UNCHANGED <<runner_vars, interval_code, var_name, feature_vars, merge_vars, validate_vars, loader_vars, warnings>>

SpecMidpoint == InitMidpoint /\ [][GetMidpoint]_vars

\* the code is a whole number that the table of base name b has as a key
IsKey(code, b) == IsFinite(code) /\ code.d = 1 /\ code.n \in DOMAIN _VAR_TO_MAP[b]

\* C2: for a registered name the result is the table's literal entry when the
\* code is a key of the table and undefined for every other code (undefined,
\* out of range, skipped, non-integer); for an unregistered name it is undefined
C2_TableOrUndefined ==
    pc = "done" =>
        /\ var_name \in DOMAIN _VAR_TO_MAP =>
              midpoint = IF IsKey(interval_code, var_name)
                         THEN _VAR_TO_MAP[var_name][interval_code.n]
                         ELSE NaN
        /\ var_name \in UnregisteredNames => midpoint = NaN

(***************************************************************************)
(* DataFrames.  A DataFrame is a function from column names to columns; a  *)
(* column is a sequence of floats indexed by row position 1..len(df).      *)
(***************************************************************************)
\* len(df)
len(d) == IF DOMAIN d = {} THEN 0 ELSE Len(d[CHOOSE c \in DOMAIN d : TRUE])

\* a column of undefined values whatever the value assigned
FullUndefined(d, value) == [i \in 1..len(d) |-> NaN]

\* pd.Series(value, index=df.index)
Full(d, value) == [i \in 1..len(d) |-> value]

\* df[name] = series
SetColumn(d, name, series) == (name :> series) @@ d

\* series.fillna(value)
fillna(series, value) ==
    [i \in DOMAIN series |-> IF IsNaN(series[i]) THEN value ELSE series[i]]

\* a.combine_first(b): a where it is defined, else b
combine_first(a, b) ==
    [i \in DOMAIN a |-> IF IsNaN(a[i]) THEN b[i] ELSE a[i]]

\* Vectorised wrapper: apply get_midpoint to a whole column
get_midpoint_series(series, name) ==
    [i \in DOMAIN series |-> get_midpoint(series[i], name)]

(***************************************************************************)
(* Merge of head records into the household table                          *)
(* (src/processing/merge.py).                                              *)
(***************************************************************************)
\* the row positions of right whose hhid equals key, ascending from j
RECURSIVE MatchesOf(_, _, _)
MatchesOf(right, key, j) ==
    IF j > len(right) THEN <<>>
    ELSE (IF right["hhid"][j] = key THEN <<j>> ELSE <<>>) \o MatchesOf(right, key, j + 1)

\* the (left row, right row) pairs of a left join from left row i on, in
\* left order; right row 0 stands for "no match"
RECURSIVE LeftJoinPairs(_, _, _)
LeftJoinPairs(left, right, i) ==
    IF i > len(left) THEN <<>>
    ELSE LET m == MatchesOf(right, left["hhid"][i], 1)
         IN  (IF m = <<>> THEN <<<<i, 0>>>> ELSE [k \in DOMAIN m |-> <<i, m[k]>>])
             \o LeftJoinPairs(left, right, i + 1)

\* the pairs of an inner join: left rows without a match are dropped
RECURSIVE InnerJoinPairs(_, _, _)
InnerJoinPairs(left, right, i) ==
    IF i > len(left) THEN <<>>
    ELSE LET m == MatchesOf(right, left["hhid"][i], 1)
         IN  [k \in DOMAIN m |-> <<i, m[k]>>] \o InnerJoinPairs(left, right, i + 1)

\* the table of a list of row pairs: left columns from the left row, right
\* columns from the right row, NaN where there is none
JoinedTable(left, right, pairs) ==
    [c \in DOMAIN left \cup DOMAIN right |->
        [k \in DOMAIN pairs |->
            IF c \in DOMAIN left THEN left[c][pairs[k][1]]
            ELSE IF pairs[k][2] = 0 THEN NaN
            ELSE right[c][pairs[k][2]]]]

\* pd.merge(hh_df, head_df, on="hhid", how="inner")
pd_merge_inner(left, right) == JoinedTable(left, right, InnerJoinPairs(left, right, 1))

\* pd.merge(hh_df, head_df, on="hhid", how="left")
pd_merge(left, right) == JoinedTable(left, right, LeftJoinPairs(left, right, 1))

\* an inner join without the row-count guard: households without a head
\* record are dropped silently
merge_inner_unguarded(hh, head) == [raised |-> "", merged |-> pd_merge_inner(hh, head)]

\* the merge without its row-count guard: it always returns the joined table
merge_unguarded(hh, head) == [raised |-> "", merged |-> pd_merge(hh, head)]

\* merge_head_into_household(hh_df, head_df): the joined table, or the
\* ValueError raised when the join changed the row count
\* (the count of matched households is only logged; it reads the first
\* non-key column of head_df, which the head tables here always carry)
merge_head_into_household(hh, head) ==
    LET n_before == len(hh)
        merged == pd_merge(hh, head)
        n_after == len(merged)
    IN  IF n_after # n_before
        THEN [raised |-> "ValueError", merged |-> <<>>]
        ELSE [raised |-> "", merged |-> merged]

(***************************************************************************)
(* Feature engineering (src/processing/features.py).                       *)
(***************************************************************************)
\* a variant that creates the missing exact columns only
_ensure_exact_columns(d, specs) ==
    LET wanted == {specs[k].exact : k \in DOMAIN specs}
    IN  [c \in DOMAIN d \cup wanted |-> IF c \in DOMAIN d THEN d[c] ELSE Full(d, NaN)]

\* Create missing columns as NaN (the DataFrame after the call): every
\* exact and interval column of specs that is not None and not in df.columns
_ensure_columns(d, specs) ==
    LET wanted == UNION {{specs[k].exact, specs[k].interval} \ {None} : k \in DOMAIN specs}
    IN  [c \in DOMAIN d \cup wanted |-> IF c \in DOMAIN d THEN d[c] ELSE Full(d, NaN)]

\* _coalesce_var with the precedence reversed: the midpoint wins over the
\* exact value
_coalesce_var_midpoint_first(d, spec) ==
    LET exact_series == IF spec.exact \in DOMAIN d THEN d[spec.exact]
                        ELSE Full(d, NaN)
    IN  IF spec.interval # None /\ spec.interval # "" /\ spec.interval \in DOMAIN d
        THEN combine_first(get_midpoint_series(d[spec.interval], spec.interval),
                           exact_series)
        ELSE exact_series

\* A single Series that prefers the exact value and falls back to the
\* interval midpoint
_coalesce_var(d, spec) ==
    LET exact_series == IF spec.exact \in DOMAIN d THEN d[spec.exact]
                        ELSE Full(d, NaN)
    IN  IF spec.interval # None /\ spec.interval # "" /\ spec.interval \in DOMAIN d
        THEN combine_first(exact_series,
                           get_midpoint_series(d[spec.interval], spec.interval))
        ELSE exact_series

\* for spec in specs: df[spec.coalesced_name] = _coalesce_var(df, spec).
\* No catalogue column is named <x>_val, so every iteration reads columns
\* the loop does not write; for a repeated name the last assignment stays.
CoalesceLoop(d, specs) ==
    LET names == {coalesced_name(specs[k]) : k \in DOMAIN specs}
        last(c) == CHOOSE k \in DOMAIN specs :
                       /\ coalesced_name(specs[k]) = c
                       /\ \A j \in DOMAIN specs : coalesced_name(specs[j]) = c => j <= k
    IN  [c \in DOMAIN d \cup names |->
            IF c \in names THEN _coalesce_var(d, specs[last(c)]) ELSE d[c]]

\* the DataFrame after coalesce_all(df)
coalesce_all(d) ==
    LET d1 == _ensure_columns(d, ALL_DEBT_VARS)
        d2 == _ensure_columns(d1, ALL_ASSET_VARS)
        d3 == _ensure_columns(d2, <<ASSET_VEHICLE_IN_BUSINESS>>)
        d4 == CoalesceLoop(d3, ALL_DEBT_VARS)
    IN  CoalesceLoop(d4, ALL_ASSET_VARS)

\* the names coalesce_all returns for a list of specs
CoalescedNames(specs) == [i \in DOMAIN specs |-> coalesced_name(specs[i])]

\* df[cols].fillna(fill).sum(axis=1) of row i over cols[lo..hi], added
\* pairwise as the reduction adds it
RECURSIVE RowSumRange(_, _, _, _, _, _)
RowSumRange(d, cols, i, fill, lo, hi) ==
    IF lo > hi THEN Num(0)
    ELSE IF lo = hi THEN fillna(d[cols[lo]], fill)[i]
    ELSE LET mid == (lo + hi) \div 2
         IN  Add(RowSumRange(d, cols, i, fill, lo, mid),
                 RowSumRange(d, cols, i, fill, mid + 1, hi))

\* the row sum without fillna(0): an undefined value makes the total undefined
RowSumPropagating(d, cols, i) == RowSumRange(d, cols, i, NaN, 1, Len(cols))

\* df[cols].fillna(0).sum(axis=1), one row
RowSum(d, cols, i) == RowSumRange(d, cols, i, Num(0), 1, Len(cols))

\* the subtraction without the clip: the series unchanged
clip_nothing(series, bound) == series

\* series.clip(lower=bound)
clip_lower(series, bound) ==
    [i \in DOMAIN series |-> IF Lt(series[i], bound) THEN bound ELSE series[i]]

\* compute_totals with the fillna(0) done in place on the coalesced columns
compute_totals_filling_in_place(d, dcols, acols) ==
    LET filled == {dcols[k] : k \in DOMAIN dcols} \cup {acols[k] : k \in DOMAIN acols}
        d0 == [c \in DOMAIN d |-> IF c \in filled THEN fillna(d[c], Num(0)) ELSE d[c]]
        d1 == SetColumn(d0, "total_debt", [i \in 1..len(d0) |-> RowSum(d0, dcols, i)])
        d2 == SetColumn(d1, "total_assets_raw",
                        [i \in 1..len(d1) |-> RowSum(d1, acols, i)])
        vib == fillna(_coalesce_var(d2, ASSET_VEHICLE_IN_BUSINESS), Num(0))
    IN  SetColumn(d2, "total_assets",
                  clip_lower([i \in 1..len(d2) |-> Sub(d2["total_assets_raw"][i], vib[i])],
                             Num(0)))

\* the DataFrame after compute_totals(df, debt_cols, asset_cols)
compute_totals(d, dcols, acols) ==
    LET d1 == SetColumn(d, "total_debt", [i \in 1..len(d) |-> RowSum(d, dcols, i)])
        d2 == SetColumn(d1, "total_assets_raw",
                        [i \in 1..len(d1) |-> RowSum(d1, acols, i)])
        vib == fillna(_coalesce_var(d2, ASSET_VEHICLE_IN_BUSINESS), Num(0))
    IN  SetColumn(d2, "total_assets",
                  clip_lower([i \in 1..len(d2) |-> Sub(d2["total_assets_raw"][i], vib[i])],
                             Num(0)))

\* the ratio without the second override: positive debt on zero assets
\* keeps debt / eps
RawRatioKeepsDegenerate(d, c) ==
    [i \in 1..len(d) |->
        LET debt == d["total_debt"][i]
            assets == d["total_assets"][i]
        IN  IF Eq(debt, Num(0)) /\ Eq(assets, Num(0)) THEN Num(0)
            ELSE Div(debt, Add(assets, c.epsilon))]

\* debt_ratio: total_debt / (total_assets + eps) with the two overrides
\* (both totals zero -> 0.0; positive debt on zero assets -> NaN)
RawRatio(d, c) ==
    [i \in 1..len(d) |->
        LET debt == d["total_debt"][i]
            assets == d["total_assets"][i]
            quotient == Div(debt, Add(assets, c.epsilon))
            zeroed == IF Eq(debt, Num(0)) /\ Eq(assets, Num(0)) THEN Num(0) ELSE quotient
        IN  IF Gt(debt, Num(0)) /\ Eq(assets, Num(0)) THEN NaN ELSE zeroed]

\* series.replace([np.inf, -np.inf], np.nan)
replace_inf(series) ==
    [i \in DOMAIN series |-> IF IsInf(series[i]) THEN NaN ELSE series[i]]

\* the index of series.dropna(): the row positions that keep a value, ascending
RECURSIVE dropna_index(_, _)
dropna_index(series, i) ==
    IF i > Len(series) THEN <<>>
    ELSE (IF IsNaN(series[i]) THEN <<>> ELSE <<i>>) \o dropna_index(series, i + 1)

\* a.argsort(): position p holds the index of the p-th smallest element
argsort(a) ==
    LET rank == [i \in DOMAIN a |->
                    1 + Cardinality({j \in DOMAIN a :
                                        Lt(a[j], a[i]) \/ (a[j] = a[i] /\ j < i)})]
    IN  [p \in DOMAIN a |-> CHOOSE i \in DOMAIN a : rank[i] = p]

\* the tail count rounded to the nearest integer (a half rounds down)
\* instead of truncated
TailCountRounded(limit, n) == (2 * limit.n * n + limit.d - 1) \div (2 * limit.d)

\* int(limit * n) for a limit in [0, 1)
TailCount(limit, n) == (limit.n * n) \div limit.d

\* scipy.stats.mstats.winsorize(a, limits=[lo, hi]) on a sequence without
\* NaN: the int(lo*n) smallest elements take the value of the next one up,
\* then the int(hi*n) largest take the value of the next one down
winsorize(a, limits) ==
    LET n == Len(a)
        idx == argsort(a)
        lowidx == TailCount(limits[1], n)
        upidx == n - TailCount(limits[2], n)
        pos == [i \in DOMAIN a |-> CHOOSE p \in DOMAIN idx : idx[p] = i]
        a1 == IF limits[1] # Num(0)
              THEN [i \in DOMAIN a |-> IF pos[i] <= lowidx THEN a[idx[lowidx + 1]] ELSE a[i]]
              ELSE a
    IN  [i \in DOMAIN a |->
            IF pos[i] > upidx THEN a1[idx[IF upidx = 0 THEN n ELSE upidx]] ELSE a1[i]]

\* the winsorised column with the two tail limits handed over in reverse
WinsorizedColumnSwapped(ratio, c) ==
    LET index == dropna_index(replace_inf(ratio), 1)
        clean == [k \in DOMAIN index |-> ratio[index[k]]]
        win_vals == winsorize(clean, <<c.winsorize_limits[2], c.winsorize_limits[1]>>)
    IN  IF index # <<>>
        THEN [i \in DOMAIN ratio |->
                 IF \E k \in DOMAIN index : index[k] = i
                 THEN win_vals[CHOOSE k \in DOMAIN index : index[k] = i]
                 ELSE NaN]
        ELSE [i \in DOMAIN ratio |-> NaN]

\* the winsorised values written back by their position among the cleaned
\* values instead of by row index
WinsorizedColumnCompact(ratio, c) ==
    LET index == dropna_index(replace_inf(ratio), 1)
        clean == [k \in DOMAIN index |-> ratio[index[k]]]
        win_vals == winsorize(clean, c.winsorize_limits)
    IN  [i \in DOMAIN ratio |-> IF i \in DOMAIN index THEN win_vals[i] ELSE NaN]

\* debt_ratio_winsorized: winsorised over the defined finite ratios and
\* written back by row position; all NaN when nothing is left to winsorise
WinsorizedColumn(ratio, c) ==
    LET index == dropna_index(replace_inf(ratio), 1)
        clean == [k \in DOMAIN index |-> ratio[index[k]]]
        win_vals == winsorize(clean, c.winsorize_limits)
    IN  IF index # <<>>
        THEN [i \in DOMAIN ratio |->
                 IF \E k \in DOMAIN index : index[k] = i
                 THEN win_vals[CHOOSE k \in DOMAIN index : index[k] = i]
                 ELSE NaN]
        ELSE [i \in DOMAIN ratio |-> NaN]

\* np.log(x + c) kept as a term: the logarithm is one-to-one, so two logs
\* are equal exactly when their arguments are
Ln(x, c) == [ln_of |-> x, plus |-> c]

\* the log transform without the offset c: np.log(x.where(x > 0))
LogTransformNoOffset(winsorized, c) ==
    [i \in DOMAIN winsorized |->
        IF Gt(winsorized[i], Num(0))
        THEN Ln(winsorized[i], Num(0))
        ELSE NaN]

\* log_debt_ratio_winsorized: np.log(log_input.where(log_input > 0)) for
\* log_input = debt_ratio_winsorized + c
LogTransform(winsorized, c) ==
    [i \in DOMAIN winsorized |->
        IF Gt(winsorized[i], Neg(c.log_dv_constant))
        THEN Ln(winsorized[i], c.log_dv_constant)
        ELSE NaN]

\* the warning compute_debt_ratio logs when no ratio is left to winsorise
RatioWarnings(d, c) ==
    IF dropna_index(replace_inf(RawRatio(d, c)), 1) = <<>>
    THEN <<"debt_ratio column is empty after cleaning">>
    ELSE <<>>

\* the DataFrame after compute_debt_ratio(df, cfg)
compute_debt_ratio(d, c) ==
    LET d1 == SetColumn(d, "debt_ratio", RawRatio(d, c))
        d2 == SetColumn(d1, "debt_ratio_winsorized", WinsorizedColumn(d1["debt_ratio"], c))
    IN  SetColumn(d2, "log_debt_ratio_winsorized",
                  LogTransform(d2["debt_ratio_winsorized"], c))

(***************************************************************************)
(* The coalesce and totals stages as operations on a merged table.         *)
(***************************************************************************)
\* most rows of a drawn table
MaxRows == 2

\* hhid of a table of n rows
HhidColumn(n) == [i \in 1..n |-> Num(i)]

\* exact answers and interval codes a single variable is tried with
ExactValues == {NaN, Num(0), Num(1000)}
IntervalCodes == {NaN, Num(3), Num(99)}

\* one-row tables in which one catalogue variable varies: its exact and
\* interval columns are each present or absent, with every pair of values
SingleSpecInputs ==
    UNION {
        {   [c \in {"hhid"} \cup (IF hasExact THEN {s.exact} ELSE {})
                            \cup (IF hasInterval /\ s.interval # None
                                  THEN {s.interval} ELSE {}) |->
                IF c = "hhid" THEN HhidColumn(1)
                ELSE IF c = s.exact THEN <<ex>> ELSE <<iv>>]
            : ex \in ExactValues, iv \in IntervalCodes }
        : s \in CatalogueSpecs, hasExact \in BOOLEAN, hasInterval \in BOOLEAN }

\* (exact answer, interval code) of one variable in one row
AnswerPairs == {<<NaN, NaN>>, <<Num(0), Num(3)>>, <<NaN, Num(3)>>}
VehiclePairs == {<<NaN, NaN>>, <<Num(40), Num(1)>>, <<NaN, Num(1)>>}

\* tables of up to MaxRows rows in which a housing debt (exact answer and
\* interval code), a housing asset and the business vehicle (exact answer
\* and interval code) vary together
MultiSpecInputs ==
    UNION {
        {   [hhid |-> HhidColumn(n),
             c2064_1 |-> [i \in 1..n |-> d[i][1]],
             c2064it_1 |-> [i \in 1..n |-> d[i][2]],
             c2016_1 |-> a,
             c7062 |-> [i \in 1..n |-> v[i][1]],
             c7062it |-> [i \in 1..n |-> v[i][2]]]
            : d \in [1..n -> AnswerPairs], a \in [1..n -> {NaN, Num(300)}],
              v \in [1..n -> VehiclePairs] }
        : n \in 1..MaxRows }

\* the household table of the business scenario: the exact and the interval
\* column of ASSET_BUSINESS, an exact 1000 in row 1 and interval code 3 in row 2
BusinessScenario ==
    [c \in {"hhid", ASSET_BUSINESS[1].exact, ASSET_BUSINESS[1].interval} |->
        IF c = "hhid" THEN HhidColumn(2)
        ELSE IF c = ASSET_BUSINESS[1].exact THEN <<Num(1000), NaN>>
        ELSE <<NaN, Num(3)>>]

InitFeatures ==
    /\ pc = "coalesce"
    /\ df \in SingleSpecInputs \cup MultiSpecInputs \cup {BusinessScenario}
    /\ cfg = Settings
    /\ debt_cols = <<>>
    /\ asset_cols = <<>>
    /\ interval_code = NaN
    /\ var_name = ""
    /\ midpoint = NaN
    /\ head_df = <<>>
    /\ n_hh = len(df)
    /\ error = ""
    /\ schema = <<>>
    /\ attempt = <<>>
    /\ report = <<>>
    /\ analysis_df = <<>>
    /\ model_specs = <<>>
    /\ results = <<>>
    /\ n_run = 0
    /\ run_log = <<>>
    /\ ind_df = <<>>
    /\ head_index = <<>>
    /\ head_log = <<>>
    /\ warnings = <<>>

\* pipeline step 4: debt_cols, asset_cols = coalesce_all(hh_df)
CoalesceAll ==
    /\ pc = "coalesce"
    /\ df' = coalesce_all(df)
    /\ debt_cols' = CoalescedNames(ALL_DEBT_VARS)
    /\ asset_cols' = CoalescedNames(ALL_ASSET_VARS)
    /\ pc' = "totals"
    /\ UNCHANGED <<runner_vars, cfg, midpoint_vars, merge_vars, validate_vars, loader_vars, warnings>>

\* pipeline step 5: compute_totals(hh_df, debt_cols, asset_cols)
ComputeTotals ==
    /\ pc = "totals"
    /\ df' = compute_totals(df, debt_cols, asset_cols)
    /\ pc' = "ratio"
    /\ UNCHANGED <<runner_vars, cfg, debt_cols, asset_cols, midpoint_vars, merge_vars, validate_vars,
                   loader_vars, warnings>>

NextFeatures == CoalesceAll \/ ComputeTotals

SpecFeatures == InitFeatures /\ [][NextFeatures]_vars

\* the catalogue specs whose coalesced column coalesce_all stores
StoredSpecs ==
    {ALL_DEBT_VARS[k] : k \in DOMAIN ALL_DEBT_VARS}
    \cup {ALL_ASSET_VARS[k] : k \in DOMAIN ALL_ASSET_VARS}

\* the value the claim gives row i of spec s: the exact value when defined,
\* else the midpoint of the interval code, undefined without interval column
PrecedenceValue(d, s, i) ==
    IF ~IsNaN(d[s.exact][i]) THEN d[s.exact][i]
    ELSE IF s.interval = None THEN NaN
    ELSE get_midpoint(d[s.interval][i], s.interval)

\* C1: coalescing is precedence-correct for every catalogue VarSpec and every
\* row: a defined exact value (0 included) is the coalesced value whatever
\* the interval code is; otherwise the coalesced value is the midpoint of the
\* interval code, undefined when that is undefined or there is no interval
\* column.  The business-vehicle variable is coalesced by compute_totals.
C1_CoalescePrecedence ==
    pc = "totals" =>
        /\ \A s \in StoredSpecs : \A i \in 1..len(df) :
               df[coalesced_name(s)][i] = PrecedenceValue(df, s, i)
        /\ \A i \in 1..len(df) :
               _coalesce_var(df, ASSET_VEHICLE_IN_BUSINESS)[i]
                   = PrecedenceValue(df, ASSET_VEHICLE_IN_BUSINESS, i)

\* C1 witness: one variable with an exact 0 beside a resolvable interval code
\* in one row (coalesced 0) and an undefined exact value beside the same code
\* in another (coalesced to the midpoint)
C1_Witness ==
    /\ pc = "totals"
    /\ \E s \in StoredSpecs : \E i, j \in 1..len(df) :
           /\ s.interval # None
           /\ df[s.exact][i] = Num(0)
           /\ ~IsNaN(get_midpoint(df[s.interval][i], s.interval))
           /\ df[coalesced_name(s)][i] = Num(0)
           /\ IsNaN(df[s.exact][j])
           /\ ~IsNaN(df[coalesced_name(s)][j])
           /\ df[coalesced_name(s)][j] = get_midpoint(df[s.interval][j], s.interval)

\* the sum of the defined values of row i over cols[lo..hi]
RECURSIVE SumOfDefinedRange(_, _, _, _, _)
SumOfDefinedRange(d, cols, i, lo, hi) ==
    IF lo > hi THEN Num(0)
    ELSE IF lo = hi THEN (IF IsNaN(d[cols[lo]][i]) THEN Num(0) ELSE d[cols[lo]][i])
    ELSE Add(SumOfDefinedRange(d, cols, i, lo, (lo + hi) \div 2),
             SumOfDefinedRange(d, cols, i, (lo + hi) \div 2 + 1, hi))

\* the sum of the defined values of row i over cols[1..k]
SumOfDefined(d, cols, i, k) == SumOfDefinedRange(d, cols, i, 1, k)

\* C6: after compute_totals, total_debt of each row is the sum of the row's
\* coalesced debt columns with undefined counted as 0, likewise
\* total_assets_raw over the asset columns; a row whose debt columns are all
\* undefined has total_debt exactly 0
C6_TotalsCountUndefinedAsZero ==
    pc = "ratio" =>
        \A i \in 1..len(df) :
            /\ df["total_debt"][i] = SumOfDefined(df, debt_cols, i, Len(debt_cols))
            /\ df["total_assets_raw"][i] = SumOfDefined(df, asset_cols, i, Len(asset_cols))
            /\ (\A k \in DOMAIN debt_cols : IsNaN(df[debt_cols[k]][i]))
                   => df["total_debt"][i] = Num(0)

\* C6 witness: one row without any debt answer (total 0) and one row with a
\* defined and an undefined debt column (total = the defined value)
C6_Witness ==
    /\ pc = "ratio"
    /\ \E i \in 1..len(df) :
           /\ \A k \in DOMAIN debt_cols : IsNaN(df[debt_cols[k]][i])
           /\ df["total_debt"][i] = Num(0)
    /\ \E i \in 1..len(df) :
           /\ IsNaN(df["b3005b_2_val"][i])
           /\ Gt(df["c2064_1_val"][i], Num(0))
           /\ df["total_debt"][i] = df["c2064_1_val"][i]
           /\ df["total_assets_raw"][i] = Num(300)
    /\ len(df) >= 2

(***************************************************************************)
(* The ratio stage as an operation on a table that carries the totals.     *)
(***************************************************************************)
\* most rows of a table handed to the ratio stage
MaxRatioRows == 3

\* (total_debt, total_assets) of one household
TotalsPairs ==
    {<<Num(0), Num(0)>>, <<Num(1), Num(0)>>, <<Num(1), Num(1)>>,
     <<Num(2), Num(1)>>, <<Num(1), Num(2)>>, <<PosInf, Num(1)>>}

\* tail fractions tried for cfg.winsorize_limits, the default 0.01 included
LowerLimits == {Num(0), Rat(1, 100), Rat(1, 4), Rat(1, 2)}
UpperLimits == {Num(0), Rat(1, 100), Rat(1, 4), Rat(1, 2)}

RatioInputs ==
    UNION {
        {   [hhid |-> HhidColumn(n),
             total_debt |-> [i \in 1..n |-> rows[i][1]],
             total_assets |-> [i \in 1..n |-> rows[i][2]]]
            : rows \in [1..n -> TotalsPairs] }
        : n \in 1..MaxRatioRows }

InitRatio ==
    /\ pc = "ratio"
    /\ df \in RatioInputs
    /\ \E lo \in LowerLimits, hi \in UpperLimits :
           cfg = [Settings EXCEPT !.winsorize_limits = <<lo, hi>>]
    /\ debt_cols = CoalescedNames(ALL_DEBT_VARS)
    /\ asset_cols = CoalescedNames(ALL_ASSET_VARS)
    /\ interval_code = NaN
    /\ var_name = ""
    /\ midpoint = NaN
    /\ head_df = <<>>
    /\ n_hh = len(df)
    /\ error = ""
    /\ schema = <<>>
    /\ attempt = <<>>
    /\ report = <<>>
    /\ analysis_df = <<>>
    /\ model_specs = <<>>
    /\ results = <<>>
    /\ n_run = 0
    /\ run_log = <<>>
    /\ ind_df = <<>>
    /\ head_index = <<>>
    /\ head_log = <<>>
    /\ warnings = <<>>

\* pipeline step 6: compute_debt_ratio(hh_df, cfg)
ComputeDebtRatio ==
    /\ pc = "ratio"
    /\ df' = compute_debt_ratio(df, cfg)
    /\ warnings' = warnings \o RatioWarnings(df, cfg)
    /\ pc' = "controls"
    /\ UNCHANGED <<runner_vars, cfg, debt_cols, asset_cols, midpoint_vars, merge_vars, validate_vars,
                   loader_vars>>

SpecRatio == InitRatio /\ [][ComputeDebtRatio]_vars

\* the rows of df, and the rows whose debt_ratio is a finite number
Rows == 1..len(df)
DefinedRows == {i \in Rows : IsFinite(df["debt_ratio"][i])}
ZeroRow(i) == Eq(df["total_debt"][i], Num(0)) /\ Eq(df["total_assets"][i], Num(0))
limit_lo == cfg.winsorize_limits[1]
limit_hi == cfg.winsorize_limits[2]

\* C3: after compute_debt_ratio, in every row: both totals zero gives a
\* debt_ratio of exactly 0; positive debt on zero assets gives an undefined
\* debt_ratio; and debt_ratio_winsorized is never +inf or -inf
C3_RatioOverrides ==
    pc = "controls" =>
        \A i \in Rows :
            /\ ZeroRow(i) => df["debt_ratio"][i] = Num(0)
            /\ (Gt(df["total_debt"][i], Num(0)) /\ Eq(df["total_assets"][i], Num(0)))
                   => IsNaN(df["debt_ratio"][i])
            /\ ~IsInf(df["debt_ratio_winsorized"][i])

\* C3 witness: a table with a zero-zero row at ratio 0, a debt-without-assets
\* row at NaN and an infinite ratio whose winsorised value is NaN
C3_Witness ==
    /\ pc = "controls"
    /\ \E i \in Rows : ZeroRow(i) /\ df["debt_ratio"][i] = Num(0)
    /\ \E i \in Rows : /\ Gt(df["total_debt"][i], Num(0))
                       /\ Eq(df["total_assets"][i], Num(0))
                       /\ IsNaN(df["debt_ratio"][i])
    /\ \E i \in Rows : IsInf(df["debt_ratio"][i]) /\ IsNaN(df["debt_ratio_winsorized"][i])

\* C7 as stated: every row with both totals zero has debt_ratio_winsorized
\* exactly 0 and log_debt_ratio_winsorized = log(0 + c), whatever the other
\* rows are
C7_ZeroRowAlwaysZero ==
    pc = "controls" =>
        \A i \in Rows :
            ZeroRow(i) =>
                /\ df["debt_ratio_winsorized"][i] = Num(0)
                /\ df["log_debt_ratio_winsorized"][i] = Ln(Num(0), cfg.log_dv_constant)

\* the zero ratio lies outside both winsorised tails: more than int(lo*n) of
\* the n defined ratios are <= 0 and more than int(hi*n) of them are >= 0
ZeroInsideTails ==
    LET n == Cardinality(DefinedRows)
    IN  /\ Cardinality({j \in DefinedRows : Le(df["debt_ratio"][j], Num(0))})
               > TailCount(limit_lo, n)
        /\ Cardinality({j \in DefinedRows : Ge(df["debt_ratio"][j], Num(0))})
               > TailCount(limit_hi, n)

\* C7 amended: a row with both totals zero has debt_ratio exactly 0 and a
\* defined debt_ratio_winsorized; when the zero ratio lies outside both
\* winsorised tails, debt_ratio_winsorized is exactly 0 and
\* log_debt_ratio_winsorized = log(0 + c)
C7_ZeroRowOutsideTails ==
    pc = "controls" =>
        \A i \in Rows :
            ZeroRow(i) =>
                /\ df["debt_ratio"][i] = Num(0)
                /\ IsFinite(df["debt_ratio_winsorized"][i])
                /\ ZeroInsideTails =>
                       /\ df["debt_ratio_winsorized"][i] = Num(0)
                       /\ df["log_debt_ratio_winsorized"][i]
                              = Ln(Num(0), cfg.log_dv_constant)

\* C7 witness: winsorisation is active at the lower tail, a zero-zero row
\* lies outside the tails and keeps 0 and log(c)
C7_Witness ==
    /\ pc = "controls"
    /\ TailCount(limit_lo, Cardinality(DefinedRows)) >= 1
    /\ ZeroInsideTails
    /\ \E i \in Rows :
           /\ ZeroRow(i)
           /\ df["debt_ratio_winsorized"][i] = Num(0)
           /\ df["log_debt_ratio_winsorized"][i] = Ln(Num(0), cfg.log_dv_constant)
    /\ \E i \in Rows : df["debt_ratio_winsorized"][i] # df["debt_ratio"][i]

\* rows raised at the lower tail and rows lowered at the upper tail
LowerAltered ==
    Cardinality({i \in DefinedRows : Lt(df["debt_ratio"][i], df["debt_ratio_winsorized"][i])})
UpperAltered ==
    Cardinality({i \in DefinedRows : Gt(df["debt_ratio"][i], df["debt_ratio_winsorized"][i])})

\* |k - limit * n| <= 1
WithinOne(k, limit, n) ==
    /\ (k - 1) * limit.d <= limit.n * n
    /\ limit.n * n <= (k + 1) * limit.d

\* C8 as stated: with n defined finite ratios, the number of rows altered at
\* the lower tail differs from lo*n by at most one, likewise hi*n at the
\* upper tail
C8_AlteredWithinOne ==
    pc = "controls" =>
        LET n == Cardinality(DefinedRows)
        IN  /\ WithinOne(LowerAltered, limit_lo, n)
            /\ WithinOne(UpperAltered, limit_hi, n)

DistinctRatios ==
    \A i, j \in DefinedRows : df["debt_ratio"][i] = df["debt_ratio"][j] => i = j

\* C8 amended: at most int(lo*n) rows are altered at the lower tail and at
\* most int(hi*n) at the upper tail; when the n defined ratios are pairwise
\* distinct and int(lo*n) + int(hi*n) < n the counts are exactly int(lo*n)
\* and int(hi*n), so within one observation of lo*n and hi*n
C8_AlteredAtMostTail ==
    pc = "controls" =>
        LET n == Cardinality(DefinedRows)
            lo == TailCount(limit_lo, n)
            hi == TailCount(limit_hi, n)
        IN  /\ LowerAltered <= lo
            /\ UpperAltered <= hi
            /\ (DistinctRatios /\ lo + hi < n) =>
                   /\ LowerAltered = lo
                   /\ UpperAltered = hi
                   /\ WithinOne(LowerAltered, limit_lo, n)
                   /\ WithinOne(UpperAltered, limit_hi, n)

\* C8 witness: distinct ratios with one row altered at each tail
C8_Witness ==
    /\ pc = "controls"
    /\ DistinctRatios
    /\ LowerAltered = 1
    /\ UpperAltered = 1
    /\ TailCount(limit_lo, Cardinality(DefinedRows)) = 1

(***************************************************************************)
(* The merge as an operation on a household table and a head table.        *)
(***************************************************************************)
\* most rows of a household table and of a head table
MaxHouseholds == 3
MaxHeads == 3

\* household identifiers in the drawn tables; pandas joins an undefined key
\* to an undefined key, as equality of the modelled values does
Hhids == {Num(1), Num(2), NaN}

\* household tables: any hhid column, with an income column
HouseholdTables ==
    UNION {
        { [hhid |-> ids, income |-> [i \in 1..n |-> Num(100 * i)]] : ids \in [1..n -> Hhids] }
        : n \in 0..MaxHouseholds }

\* head tables: any hhid column, unique or not, each head with an age of
\* its own
HeadTables ==
    UNION {
        { [hhid |-> ids, head_age |-> [i \in 1..n |-> Num(30 + i)]] : ids \in [1..n -> Hhids] }
        : n \in 0..MaxHeads }

InitMerge ==
    /\ pc = "merge"
    /\ df \in HouseholdTables
    /\ head_df \in HeadTables
    /\ n_hh = len(df)
    /\ error = ""
    /\ schema = <<>>
    /\ attempt = <<>>
    /\ report = <<>>
    /\ analysis_df = <<>>
    /\ model_specs = <<>>
    /\ results = <<>>
    /\ n_run = 0
    /\ run_log = <<>>
    /\ ind_df = <<>>
    /\ head_index = <<>>
    /\ head_log = <<>>
    /\ warnings = <<>>
    /\ cfg = Settings
    /\ debt_cols = <<>>
    /\ asset_cols = <<>>
    /\ interval_code = NaN
    /\ var_name = ""
    /\ midpoint = NaN

\* pipeline step 3: hh_df = merge_head_into_household(hh_df, head_df)
MergeHeadIntoHousehold ==
    /\ pc = "merge"
    /\ LET r == merge_head_into_household(df, head_df)
       IN  IF r.raised # ""
           THEN /\ error' = r.raised
                /\ pc' = "failed"
                /\ UNCHANGED df
           ELSE /\ df' = r.merged
                /\ pc' = "coalesce"
                /\ UNCHANGED error
    /\ UNCHANGED <<runner_vars, cfg, debt_cols, asset_cols, head_df, n_hh, midpoint_vars, validate_vars,
                   loader_vars, warnings>>

SpecMerge == InitMerge /\ [][MergeHeadIntoHousehold]_vars

\* the head table is keyed uniquely on hhid
HeadKeyUnique ==
    \A i, j \in 1..len(head_df) : head_df["hhid"][i] = head_df["hhid"][j] => i = j

\* the merge has been attempted
MergeOver == pc \in {"coalesce", "failed"}

\* C4: for any household table and any head table with pairwise distinct
\* hhid the merge returns, without raising, a table of exactly len(A) rows in
\* which a household without a matching head has undefined head fields (and
\* a matched household its head's fields)
C4_MergeKeepsRowCount ==
    (MergeOver /\ HeadKeyUnique) =>
        /\ pc = "coalesce"
        /\ error = ""
        /\ len(df) = n_hh
        /\ \A i \in 1..len(df) :
               LET m == MatchesOf(head_df, df["hhid"][i], 1)
               IN  IF m = <<>> THEN IsNaN(df["head_age"][i])
                   ELSE df["head_age"][i] = head_df["head_age"][m[1]]

\* C4 witness: a unique head table merged into a household table with a
\* matched and an unmatched household
C4_Witness ==
    /\ pc = "coalesce"
    /\ HeadKeyUnique
    /\ len(head_df) >= 2
    /\ len(df) = n_hh
    /\ \E i \in 1..len(df) : IsNaN(df["head_age"][i])
    /\ \E i \in 1..len(df) : df["head_age"][i] = Num(32)

DuplicateMatchesHousehold ==
    \E i, j \in 1..len(head_df) :
        /\ i # j
        /\ head_df["hhid"][i] = head_df["hhid"][j]
        /\ \E k \in 1..n_hh : df["hhid"][k] = head_df["hhid"][i]

post_init_rejecting_equal(self) ==
    IF /\ self.min_value # <<>>
       /\ self.max_value # <<>>
       /\ Ge(self.min_value[1], self.max_value[1])
    THEN "ValueError"
    ELSE ""

\* ColumnSchema.__post_init__: the exception it raises, "" when it returns
__post_init__(self) ==
    IF /\ self.min_value # <<>>
       /\ self.max_value # <<>>
       /\ Gt(self.min_value[1], self.max_value[1])
    THEN "ValueError"
    ELSE ""

\* the fields of a ColumnSchema
ColumnSchema(name, label, dtype, nullable, min_value, max_value, allowed_values) ==
    [name |-> name, label |-> label, dtype |-> dtype, nullable |-> nullable,
     min_value |-> min_value, max_value |-> max_value,
     allowed_values |-> allowed_values]

\* Violation(column, rule, detail, severity); detail holds the values the
\* message is formatted from
Violation(column, rule, detail, severity) ==
    [column |-> column, rule |-> rule, detail |-> detail, severity |-> severity]

\* ValidationReport.is_valid
is_valid(r) == ~\E i \in DOMAIN r.violations : r.violations[i].severity = "ERROR"

\* ValidationReport.error_count
error_count(r) == Cardinality({i \in DOMAIN r.violations : r.violations[i].severity = "ERROR"})

\* ValidationReport.warning_count
warning_count(r) ==
    Cardinality({i \in DOMAIN r.violations : r.violations[i].severity = "WARNING"})

\* format(x, ".1f") of a non-negative value: the nearest tenth, ties to even
Round1(x) ==
    LET t == x.n * 10
        q == t \div x.d
        r == t % x.d
    IN  Rat(IF 2 * r > x.d \/ (2 * r = x.d /\ q % 2 = 1) THEN q + 1 ELSE q, 10)

\* sorted(values) of a set of defined values
RECURSIVE sorted(_)
sorted(S) ==
    IF S = {} THEN <<>>
    ELSE LET m == CHOOSE x \in S : \A y \in S : Le(x, y)
         IN  <<m>> \o sorted(S \ {m})

\* series.unique(): the distinct values in order of first appearance
RECURSIVE unique(_)
unique(series) ==
    IF series = <<>> THEN <<>>
    ELSE LET rest == unique(SubSeq(series, 1, Len(series) - 1))
             last == series[Len(series)]
         IN  IF \E i \in DOMAIN rest : rest[i] = last THEN rest ELSE Append(rest, last)

\* int(series.isna().sum())
CountNaN(series) == Cardinality({i \in DOMAIN series : IsNaN(series[i])})

\* the nullability check with one violation for each undefined value
NullabilityPerValue(col, series, nullable) ==
    LET null_count == CountNaN(series)
        pct == Rat(null_count * 100, Len(series))
    IN  IF ~nullable
        THEN [k \in 1..null_count |->
                 Violation(col, "NOT_NULLABLE",
                           [null_count |-> null_count, pct |-> Round1(pct)], "ERROR")]
        ELSE <<>>

\* the nullability check with >= for >: it also warns at exactly 80%
NullabilityAtEighty(col, series, nullable) ==
    LET null_count == CountNaN(series)
        pct == Rat(null_count * 100, Len(series))
    IN  IF null_count > 0
        THEN IF ~nullable
             THEN <<Violation(col, "NOT_NULLABLE",
                              [null_count |-> null_count, pct |-> Round1(pct)], "ERROR")>>
             ELSE IF Ge(pct, Num(80))
             THEN <<Violation(col, "HIGH_MISSING",
                              [null_count |-> null_count, pct |-> Round1(pct)], "WARNING")>>
             ELSE <<>>
        ELSE <<>>

\* _check_column, nullability: the violations of the undefined values of a
\* present column
Nullability(col, series, nullable) ==
    LET null_count == CountNaN(series)
        pct == Rat(null_count * 100, Len(series))
    IN  IF null_count > 0
        THEN IF ~nullable
             THEN <<Violation(col, "NOT_NULLABLE",
                              [null_count |-> null_count, pct |-> Round1(pct)], "ERROR")>>
             ELSE IF Gt(pct, Num(80))
             THEN <<Violation(col, "HIGH_MISSING",
                              [null_count |-> null_count, pct |-> Round1(pct)], "WARNING")>>
             ELSE <<>>
        ELSE <<>>

\* series.min() and series.max() of a non-empty series of defined values
SeriesMin(series) ==
    LET S == {series[i] : i \in DOMAIN series} IN CHOOSE x \in S : \A y \in S : Le(x, y)
SeriesMax(series) ==
    LET S == {series[i] : i \in DOMAIN series} IN CHOOSE x \in S : \A y \in S : Ge(x, y)

\* the range checks with <= and >= for < and >: a value equal to a bound is
\* counted as outside it
RangeChecksInclusive(col, non_null, s) ==
    LET below == IF s.min_value = <<>> THEN 0
                 ELSE Cardinality({i \in DOMAIN non_null : Le(non_null[i], s.min_value[1])})
        above == IF s.max_value = <<>> THEN 0
                 ELSE Cardinality({i \in DOMAIN non_null : Ge(non_null[i], s.max_value[1])})
    IN  (IF below > 0
         THEN <<Violation(col, "BELOW_MIN",
                          [below |-> below, min_value |-> s.min_value[1],
                           actual |-> SeriesMin(non_null)], "ERROR")>>
         ELSE <<>>)
        \o (IF above > 0
            THEN <<Violation(col, "ABOVE_MAX",
                             [above |-> above, max_value |-> s.max_value[1],
                              actual |-> SeriesMax(non_null)], "ERROR")>>
            ELSE <<>>)

\* _check_column, range checks: the violations of the defined values of a
\* column that has one
RangeChecks(col, non_null, s) ==
    LET below == IF s.min_value = <<>> THEN 0
                 ELSE Cardinality({i \in DOMAIN non_null : Lt(non_null[i], s.min_value[1])})
        above == IF s.max_value = <<>> THEN 0
                 ELSE Cardinality({i \in DOMAIN non_null : Gt(non_null[i], s.max_value[1])})
    IN  (IF below > 0
         THEN <<Violation(col, "BELOW_MIN",
                          [below |-> below, min_value |-> s.min_value[1],
                           actual |-> SeriesMin(non_null)], "ERROR")>>
         ELSE <<>>)
        \o (IF above > 0
            THEN <<Violation(col, "ABOVE_MAX",
                             [above |-> above, max_value |-> s.max_value[1],
                              actual |-> SeriesMax(non_null)], "ERROR")>>
            ELSE <<>>)

\* _check_column(df, schema): the violations of one schema entry, in order
_check_column(d, s) ==
    LET col == s.name
    IN  IF col \notin DOMAIN d
        THEN <<Violation(col, "MISSING_COLUMN", <<>>, "ERROR")>>
        ELSE
        LET series == d[col]
            nulls == Nullability(col, series, s.nullable)
            non_null == SelectSeq(series, LAMBDA x : ~IsNaN(x))
            invalid == IF s.allowed_values = <<>> THEN <<>>
                       ELSE SelectSeq(non_null, LAMBDA x : x \notin s.allowed_values[1])
            first5 == LET u == unique(invalid)
                      IN  SubSeq(u, 1, IF Len(u) < 5 THEN Len(u) ELSE 5)
            inf_count == Cardinality({i \in DOMAIN non_null : IsInf(non_null[i])})
        IN  IF non_null = <<>> THEN nulls
            ELSE nulls
                 \o RangeChecks(col, non_null, s)
                 \o (IF Len(invalid) > 0
                     THEN <<Violation(col, "INVALID_VALUES",
                                      [n_invalid |-> Len(invalid),
                                       allowed |-> sorted(s.allowed_values[1]),
                                       bad_vals |-> sorted({first5[i] : i \in DOMAIN first5})],
                                      "ERROR")>>
                     ELSE <<>>)
                 \o (IF inf_count > 0
                     THEN <<Violation(col, "INFINITE_VALUES",
                                      [inf_count |-> inf_count], "ERROR")>>
                     ELSE <<>>)

\* the loop of validate leaving at the first entry whose column is absent
RECURSIVE ExtendViolationsUntilMissing(_, _, _)
ExtendViolationsUntilMissing(d, sch, k) ==
    IF k > Len(sch) THEN <<>>
    ELSE IF sch[k].name \notin DOMAIN d THEN _check_column(d, sch[k])
    ELSE _check_column(d, sch[k]) \o ExtendViolationsUntilMissing(d, sch, k + 1)

\* the loop of validate: the violations of the entries from position k on
RECURSIVE ExtendViolations(_, _, _)
ExtendViolations(d, sch, k) ==
    IF k > Len(sch) THEN <<>>
    ELSE _check_column(d, sch[k]) \o ExtendViolations(d, sch, k + 1)

\* validate(df, schema) with an explicit schema list
validate(d, sch) ==
    [violations |-> ExtendViolations(d, sch, 1),
     rows_checked |-> len(d),
     columns_checked |-> Len(sch)]

\* the WARNING records validate logs: for a report that is not valid its
\* summary, then one record for each WARNING violation (ERROR violations
\* are logged at error level); a valid report is logged at info level
ValidateWarnings(r) ==
    IF is_valid(r) THEN <<>>
    ELSE <<"summary">>
         \o (LET w == SelectSeq(r.violations, LAMBDA v : v.severity = "WARNING")
             IN  [i \in DOMAIN w |-> w[i].rule])

(***************************************************************************)
(* Schema construction and validation as operations: entries are           *)
(* constructed one at a time, then validate(df, schema) is called with the *)
(* list of the entries that exist.                                         *)
(***************************************************************************)
\* most entries of a schema list and most rows of a validated table
MaxSchema == 1
MaxValidateRows == 2

\* the values of the validated column
ColumnValues == {NaN, Num(0), Num(2), PosInf}

\* validated tables: one column named id
ValidateTables ==
    UNION { { [id |-> col] : col \in [1..n -> ColumnValues] } : n \in 0..MaxValidateRows }

\* the (dtype, min_value, max_value, allowed_values) arguments of a
\* construction: a float column with any pair of bounds, a binary column
\* with its allowed set
DomainArgs ==
    { <<"FLOAT", b[1], b[2], <<>>>> : b \in
        { <<<<>>, <<>>>>, <<<<>>, <<Num(1)>>>>, <<<<Num(1)>>, <<>>>>,
          <<<<Num(0)>>, <<Num(1)>>>>, <<<<Num(1)>>, <<Num(1)>>>>,
          <<<<Num(1)>>, <<Num(0)>>>>, <<<<NaN>>, <<Num(1)>>>> } }
    \cup { <<"BINARY", <<>>, <<>>, <<{Num(0), Num(1)}>>>> }

InitValidate ==
    /\ pc = "schema"
    /\ df \in ValidateTables
    /\ schema = <<>>
    /\ attempt = <<>>
    /\ report = <<>>
    /\ analysis_df = <<>>
    /\ model_specs = <<>>
    /\ results = <<>>
    /\ n_run = 0
    /\ run_log = <<>>
    /\ ind_df = <<>>
    /\ head_index = <<>>
    /\ head_log = <<>>
    /\ warnings = <<>>
    /\ error = ""
    /\ head_df = <<>>
    /\ n_hh = len(df)
    /\ cfg = Settings
    /\ debt_cols = <<>>
    /\ asset_cols = <<>>
    /\ interval_code = NaN
    /\ var_name = ""
    /\ midpoint = NaN

\* ColumnSchema(name, label, dtype, nullable=..., min_value=..., ...): the
\* object joins the schema list unless __post_init__ raises
NewColumnSchema ==
    /\ pc = "schema"
    /\ Len(schema) < MaxSchema
    /\ \E name \in {"id", "val"}, nullable \in BOOLEAN, a \in DomainArgs :
           LET self == ColumnSchema(name, name, a[1], nullable, a[2], a[3], a[4])
               raised == __post_init__(self)
           IN  /\ attempt' = <<self>>
               /\ IF raised # ""
                  THEN /\ error' = raised
                       /\ pc' = "failed"
                       /\ UNCHANGED schema
                  ELSE /\ schema' = Append(schema, self)
                       /\ UNCHANGED <<pc, error>>
    /\ UNCHANGED <<runner_vars, report, analysis_df, feature_vars, head_df, n_hh, midpoint_vars, loader_vars, warnings>>

\* report = validate(df, schema)
Validate ==
    /\ pc = "schema"
    /\ report' = validate(df, schema)
    /\ warnings' = warnings \o ValidateWarnings(validate(df, schema))
    /\ pc' = "done"
    /\ UNCHANGED <<runner_vars, schema, attempt, analysis_df, feature_vars, merge_vars, midpoint_vars, loader_vars>>

NextValidate == NewColumnSchema \/ Validate

SpecValidate == InitValidate /\ [][NextValidate]_vars

\* the NOT_NULLABLE violations the report holds for a column
NotNullableOf(name) ==
    {i \in DOMAIN report.violations :
        /\ report.violations[i].column = name
        /\ report.violations[i].rule = "NOT_NULLABLE"}

\* the entry is non-nullable, its column is present and holds an undefined
\* value
NullInNonNullable(s) ==
    /\ ~s.nullable
    /\ s.name \in DOMAIN df
    /\ \E i \in DOMAIN df[s.name] : IsNaN(df[s.name][i])

\* C9: for a non-nullable schema entry whose column is present and holds at
\* least one undefined value, validate emits exactly one NOT_NULLABLE
\* violation for that entry, of severity ERROR, however many values are
\* undefined, and the report's is_valid is False
C9_OneNotNullableError ==
    pc = "done" =>
        \A k \in DOMAIN schema :
            NullInNonNullable(schema[k]) =>
                /\ Cardinality(NotNullableOf(schema[k].name)) =
                       Cardinality({j \in DOMAIN schema :
                                       /\ schema[j].name = schema[k].name
                                       /\ ~schema[j].nullable})
                /\ \A i \in NotNullableOf(schema[k].name) :
                       report.violations[i].severity = "ERROR"
                /\ ~is_valid(report)

\* C9 witness: a validated non-nullable column with two undefined values and
\* the one violation reported for it
C9_Witness ==
    /\ pc = "done"
    /\ \E k \in DOMAIN schema :
           /\ NullInNonNullable(schema[k])
           /\ Cardinality({i \in DOMAIN df[schema[k].name] : IsNaN(df[schema[k].name][i])}) >= 2
           /\ Cardinality(NotNullableOf(schema[k].name)) = 1
    /\ ~is_valid(report)

\* both bounds of a schema are set
BothBounds(s) == s.min_value # <<>> /\ s.max_value # <<>>

\* the last construction raised ValueError, and no validate call was made
ConstructionFailed == pc = "failed" /\ error = "ValueError" /\ report = <<>>

\* the last construction returned the object, which is now in the schema list
ConstructionSucceeded ==
    /\ error = ""
    /\ schema # <<>>
    /\ schema[Len(schema)] = attempt[1]

\* construction raises when both bounds are set and min_value > max_value,
\* and succeeds when min_value <= max_value or a bound is absent
ConstructionOutcome ==
    attempt # <<>> =>
        LET a == attempt[1]
        IN  /\ (BothBounds(a) /\ Gt(a.min_value[1], a.max_value[1])) => ConstructionFailed
            /\ (~BothBounds(a) \/ Le(a.min_value[1], a.max_value[1])) => ConstructionSucceeded

\* C10 as stated: construction raises ValueError when both bounds are set
\* and min_value > max_value, before any validate call, succeeds when
\* min_value <= max_value or a bound is absent, and so every ColumnSchema
\* that exists (with both bounds set) satisfies min_value <= max_value
C10_EverySchemaOrdered ==
    /\ ConstructionOutcome
    /\ \A k \in DOMAIN schema :
           BothBounds(schema[k]) => Le(schema[k].min_value[1], schema[k].max_value[1])

\* C10 amended: construction raises ValueError exactly when both bounds are
\* set and min_value > max_value, before any validate call, and succeeds
\* otherwise (equal bounds, an absent bound, a NaN bound); so no ColumnSchema
\* that exists has min_value > max_value, and one with both bounds set and
\* neither NaN satisfies min_value <= max_value
C10_NoSchemaReversed ==
    /\ ConstructionOutcome
    /\ attempt # <<>> =>
           (ConstructionFailed <=>
               (BothBounds(attempt[1]) /\ Gt(attempt[1].min_value[1], attempt[1].max_value[1])))
    /\ attempt # <<>> => (ConstructionFailed \/ ConstructionSucceeded)
    /\ \A k \in DOMAIN schema :
           BothBounds(schema[k]) =>
               /\ ~Gt(schema[k].min_value[1], schema[k].max_value[1])
               /\ (~IsNaN(schema[k].min_value[1]) /\ ~IsNaN(schema[k].max_value[1]))
                      => Le(schema[k].min_value[1], schema[k].max_value[1])

\* a construction with equal bounds that succeeded
C10_EqualBoundsAccepted ==
    /\ attempt # <<>>
    /\ BothBounds(attempt[1])
    /\ attempt[1].min_value[1] = attempt[1].max_value[1]
    /\ ConstructionSucceeded

\* C10 witness: a construction with min_value > max_value that raised
\* ValueError, no validate call made
C10_Witness ==
    /\ attempt # <<>>
    /\ BothBounds(attempt[1])
    /\ Gt(attempt[1].min_value[1], attempt[1].max_value[1])
    /\ ConstructionFailed

(***************************************************************************)
(* Head extraction (src/data/loader.py).                                   *)
(***************************************************************************)
\* HEAD_COLS_MAP: source column -> name in the head table, in order
HEAD_COLS_MAP ==
    << <<"hhid", "hhid">>, <<"head_age", "head_age">>, <<"a2003", "head_sex">>,
       <<"a2012", "head_educ">>, <<"a2024", "head_marital">>,
       <<"a2025b", "head_health">>, <<"head_siblings", "head_siblings">> >>

\* the positions of a table in input order
Positions(d) == [i \in 1..len(d) |-> i]

\* heads["head_age"] = cfg.survey_year - heads["a2005"]
HeadAge(ind, c, i) == Sub(Num(c.survey_year), ind["a2005"][i])

\* a sibling field of row i: 0 when the column is absent or the value
\* undefined
SiblingField(ind, col, i) ==
    IF col \notin DOMAIN ind THEN Num(0)
    ELSE IF IsNaN(ind[col][i]) THEN Num(0) ELSE ind[col][i]

\* head_siblings with the age ceiling tested strictly: a head exactly at
\* the ceiling loses the count
HeadSiblingsBelowCeiling(ind, c, i) ==
    IF Lt(HeadAge(ind, c, i), Num(c.sibling_max_age))
    THEN Add(SiblingField(ind, "a2028", i), SiblingField(ind, "a2029", i))
    ELSE NaN

\* head_siblings: the raw count up to the age ceiling, NaN above it
HeadSiblings(ind, c, i) ==
    IF Le(HeadAge(ind, c, i), Num(c.sibling_max_age))
    THEN Add(SiblingField(ind, "a2028", i), SiblingField(ind, "a2029", i))
    ELSE NaN

\* drop_duplicates keeping the last row of each hhid
KeepLast(ind, rows) ==
    SelectSeq(rows, LAMBDA i : ~\E k \in DOMAIN rows : rows[k] > i /\ ind["hhid"][rows[k]] = ind["hhid"][i])

\* drop_duplicates(subset=["hhid"], keep="first") on the rows listed
KeepFirst(ind, rows) ==
    SelectSeq(rows, LAMBDA i : ~\E k \in DOMAIN rows : rows[k] < i /\ ind["hhid"][rows[k]] = ind["hhid"][i])

\* the age filter keeping the heads whose age is not known to be below the
\* minimum
AgeFilterKeepingUndefined(ind, c, heads) ==
    SelectSeq(heads, LAMBDA i : ~Lt(HeadAge(ind, c, i), Num(c.head_min_age)))

\* the age filter run on the de-duplicated head rows
AgeFilterAfterKeepFirst(ind, c, heads) ==
    SelectSeq(KeepFirst(ind, heads),
              LAMBDA i : Ge(HeadAge(ind, c, i), Num(c.head_min_age)))

\* heads[heads["head_age"] >= cfg.head_min_age] on the rows listed
AgeFilter(ind, c, heads) ==
    SelectSeq(heads, LAMBDA i : Ge(HeadAge(ind, c, i), Num(c.head_min_age)))

\* a log record: level, message and the count the message carries
LogRecord(level, message, count) == [level |-> level, message |-> message, count |-> count]

\* extract_heads(ind_df, cfg): the head table with its index, the warnings
\* and all the log records emitted, or the DataLoadError raised
extract_heads(ind, c) ==
    IF "a2001" \notin DOMAIN ind
    THEN [raised |-> "DataLoadError", result |-> <<>>, index |-> <<>>, logged |-> <<>>,
          records |-> <<>>]
    ELSE
    LET heads == SelectSeq(Positions(ind), LAMBDA i : Eq(ind["a2001"][i], Num(1)))
    IN  IF "a2005" \notin DOMAIN ind
        THEN [raised |-> "DataLoadError", result |-> <<>>, index |-> <<>>, logged |-> <<>>,
              records |-> <<LogRecord("INFO", "Identified household heads", Len(heads))>>]
        ELSE
        LET aged == AgeFilter(ind, c, heads)
            derived(col, i) ==
                IF col = "head_age" THEN HeadAge(ind, c, i)
                ELSE IF col = "head_siblings" THEN HeadSiblings(ind, c, i)
                ELSE ind[col][i]
            present == {k \in DOMAIN HEAD_COLS_MAP :
                           HEAD_COLS_MAP[k][1] \in DOMAIN ind \cup {"head_age", "head_siblings"}}
            index == KeepFirst(ind, aged)
        IN  [raised |-> "",
             result |-> [name \in {HEAD_COLS_MAP[k][2] : k \in present} |->
                            LET k == CHOOSE k \in present : HEAD_COLS_MAP[k][2] = name
                            IN  [j \in DOMAIN index |-> derived(HEAD_COLS_MAP[k][1], index[j])]],
             index |-> index,
             logged |-> IF Len(heads) - Len(aged) # 0 THEN <<"Dropped heads">> ELSE <<>>,
             records |->
                 <<LogRecord("INFO", "Identified household heads", Len(heads))>>
                 \o (IF Len(heads) - Len(aged) # 0
                     THEN <<LogRecord("WARNING", "Dropped heads aged below the minimum",
                                      Len(heads) - Len(aged))>>
                     ELSE <<>>)
                 \o <<LogRecord("INFO", "Prepared head records for merge", Len(index))>>]

(***************************************************************************)
(* Head extraction as an operation on an individual-level table.           *)
(***************************************************************************)
\* most rows of an individual-level table
MaxIndividuals == 2

\* (birth year, brothers, sisters) of a head: birth years around the two age
\* limits (15, 16, 40, 41 in the survey year, and unanswered) with sibling
\* answers given or not
HeadAnswers ==
    { <<NaN, Num(2), Num(1)>>, <<Num(2002), NaN, NaN>>, <<Num(2001), Num(2), NaN>>,
      <<Num(1977), Num(2), Num(1)>>, <<Num(1977), NaN, NaN>>, <<Num(1976), Num(2), Num(1)>> }

\* one person: <<hhid, a2001, a2005, a2028, a2029>>.  Members who are not
\* the head (role 2, role unanswered) and heads with each of HeadAnswers
Persons ==
    { <<Num(5), Num(2), Num(1977), NaN, NaN>>, <<Num(6), NaN, Num(1977), NaN, NaN>> }
    \cup { <<h, Num(1), a[1], a[2], a[3]>> : h \in {Num(5), Num(6)}, a \in HeadAnswers }

\* the table of a list of persons; a2003 numbers the rows
IndividualTable(rows) ==
    [hhid |-> [i \in DOMAIN rows |-> rows[i][1]],
     a2001 |-> [i \in DOMAIN rows |-> rows[i][2]],
     a2005 |-> [i \in DOMAIN rows |-> rows[i][3]],
     a2028 |-> [i \in DOMAIN rows |-> rows[i][4]],
     a2029 |-> [i \in DOMAIN rows |-> rows[i][5]],
     a2003 |-> [i \in DOMAIN rows |-> Num(i)]]

\* a table without the columns named
WithoutColumns(d, drop) == [c \in DOMAIN d \ drop |-> d[c]]

\* individual tables: the sibling columns present or absent, and one-row
\* tables that lack the role or the birth-year column
IndividualTables ==
    UNION { { WithoutColumns(IndividualTable(rows), drop) :
                rows \in [1..n -> Persons],
                drop \in {{}, {"a2029"}, {"a2028", "a2029"}}
                         \cup (IF n = 1 THEN {{"a2001"}, {"a2005"}} ELSE {}) }
            : n \in 0..MaxIndividuals }

InitHeads ==
    /\ pc = "extract"
    /\ ind_df \in IndividualTables
    /\ head_df = <<>>
    /\ head_index = <<>>
    /\ head_log = <<>>
    /\ warnings = <<>>
    /\ error = ""
    /\ df = <<>>
    /\ n_hh = 0
    /\ cfg = Settings
    /\ debt_cols = <<>>
    /\ asset_cols = <<>>
    /\ interval_code = NaN
    /\ var_name = ""
    /\ midpoint = NaN
    /\ schema = <<>>
    /\ attempt = <<>>
    /\ report = <<>>
    /\ analysis_df = <<>>
    /\ model_specs = <<>>
    /\ results = <<>>
    /\ n_run = 0
    /\ run_log = <<>>

\* pipeline step 2: head_df = extract_heads(ind_df, cfg)
ExtractHeads ==
    /\ pc = "extract"
    /\ LET r == extract_heads(ind_df, cfg)
       IN  IF r.raised # ""
           THEN /\ error' = r.raised
                /\ pc' = "failed"
                /\ head_log' = head_log \o r.records
                /\ UNCHANGED <<head_df, head_index, warnings>>
           ELSE /\ head_df' = r.result
                /\ head_log' = head_log \o r.records
                /\ head_index' = r.index
                /\ warnings' = warnings \o r.logged
                /\ pc' = "merge"
                /\ UNCHANGED error
    /\ UNCHANGED <<runner_vars, ind_df, df, n_hh, cfg, debt_cols, asset_cols, midpoint_vars,
                   validate_vars>>

SpecHeads == InitHeads /\ [][ExtractHeads]_vars

\* row i of ind_df is a head record that passes the age filter
PassingHead(i) ==
    /\ Eq(ind_df["a2001"][i], Num(1))
    /\ Ge(HeadAge(ind_df, cfg, i), Num(cfg.head_min_age))

\* C11: extract_heads returns at most one row per hhid, and the row of an
\* hhid is the first head row (role code 1) of that hhid in input order that
\* passes the age filter
C11_FirstHeadPerHousehold ==
    pc = "merge" =>
        /\ \A j, k \in DOMAIN head_index :
               head_df["hhid"][j] = head_df["hhid"][k] => j = k
        /\ \A i \in 1..len(ind_df) :
               PassingHead(i) =>
                   \E j \in DOMAIN head_index :
                       /\ head_df["hhid"][j] = ind_df["hhid"][i]
                       /\ PassingHead(head_index[j])
                       /\ head_index[j] <= i
                       /\ ~\E m \in 1..(head_index[j] - 1) :
                              PassingHead(m) /\ ind_df["hhid"][m] = ind_df["hhid"][i]
                       /\ head_df["head_sex"][j] = ind_df["a2003"][head_index[j]]
                       /\ head_df["head_age"][j] = HeadAge(ind_df, cfg, head_index[j])

\* C11 witness: two passing head rows of one hhid, of which the first is
\* returned
C11_Witness ==
    /\ pc = "merge"
    /\ len(ind_df) = 2
    /\ PassingHead(1) /\ PassingHead(2)
    /\ ind_df["hhid"][1] = ind_df["hhid"][2]
    /\ head_index = <<1>>
    /\ head_df["head_sex"] = <<Num(1)>>

\* a sibling answer of an ind_df row, 0 when undefined or not asked
AnswerOrZero(col, i) ==
    IF col \in DOMAIN ind_df /\ ~IsNaN(ind_df[col][i]) THEN ind_df[col][i] ELSE Num(0)

\* C18: for every head record returned by extract_heads, head_siblings is
\* undefined if and only if head_age is strictly greater than
\* cfg.sibling_max_age (a head exactly at the ceiling keeps the count), and
\* when defined it is a2028 + a2029 with an undefined or absent field
\* counted as 0
C18_SiblingsUpToCeiling ==
    pc = "merge" =>
        \A j \in DOMAIN head_index :
            /\ IsNaN(head_df["head_siblings"][j])
                   <=> Gt(head_df["head_age"][j], Num(cfg.sibling_max_age))
            /\ ~IsNaN(head_df["head_siblings"][j]) =>
                   head_df["head_siblings"][j]
                       = Add(AnswerOrZero("a2028", head_index[j]),
                             AnswerOrZero("a2029", head_index[j]))

\* C18 witness: a head exactly at the ceiling with the count 2 + 1 kept and
\* a head one year above it with the count undefined
C18_Witness ==
    /\ pc = "merge"
    /\ \E j \in DOMAIN head_index :
           /\ head_df["head_age"][j] = Num(cfg.sibling_max_age)
           /\ head_df["head_siblings"][j] = Num(3)
    /\ \E j \in DOMAIN head_index :
           /\ head_df["head_age"][j] = Num(cfg.sibling_max_age + 1)
           /\ IsNaN(head_df["head_siblings"][j])
           /\ ~IsNaN(ind_df["a2028"][head_index[j]])

\* ---------------------------------------------------------------------------
\* The business scenario of the coalesce stage
\* ---------------------------------------------------------------------------

\* the source columns of df are those of the business scenario (coalesce_all
\* adds columns and leaves the source columns as they were)
IsBusinessScenario ==
    /\ len(df) = 2
    /\ \A c \in DOMAIN BusinessScenario :
           c \in DOMAIN df /\ df[c] = BusinessScenario[c]

\* C12: for the catalogue's business variable, the coalesce stage on the rows
\* {hhid 1: exact 1000, interval undefined} and {hhid 2: exact undefined,
\* interval code 3} yields the coalesced values 1000 and 40000.
C12_BusinessScenarioValues ==
    (pc = "totals" /\ IsBusinessScenario) =>
        df[coalesced_name(ASSET_BUSINESS[1])] = <<Num(1000), Num(40000)>>

\* what the coalesce stage stores for the scenario: b2003dit is in no _VARS_k
\* set, so code 3 resolves to undefined
C12_BusinessScenarioStored ==
    (pc = "totals" /\ IsBusinessScenario) =>
        df[coalesced_name(ASSET_BUSINESS[1])] = <<Num(1000), NaN>>

C12_Witness ==
    /\ pc = "totals"
    /\ IsBusinessScenario
    /\ IsNaN(df[coalesced_name(ASSET_BUSINESS[1])][2])

\* ---------------------------------------------------------------------------
\* The catalogue's interval columns and the midpoint registry
\* ---------------------------------------------------------------------------

\* the interval columns of the catalogue's VarSpecs
CatalogueIntervals == {s.interval : s \in {t \in CatalogueSpecs : t.interval # None}}

\* C13: for every catalogue VarSpec with an interval column, the interval
\* column's name with its trailing _<digits> suffix stripped is a registered
\* key of the midpoint registry, so every code of the corresponding table
\* resolves to a defined midpoint for that VarSpec.
C13_CatalogueIntervalsRegistered ==
    (pc = "done" /\ var_name \in CatalogueIntervals) =>
        /\ _normalise_var_name(var_name) \in DOMAIN _VAR_TO_MAP
        /\ IsKey(interval_code, _normalise_var_name(var_name)) => ~IsNaN(midpoint)

\* the catalogue's interval columns that no _VARS_k set registers
UnregisteredIntervals == {"b2003dit", "c2023dit", "c2023eit", "d3116it"}

\* what the registry does for the catalogue: all interval columns but four
\* are registered, and those four resolve to undefined for every code
C13_RegisteredButFour ==
    (pc = "done" /\ var_name \in CatalogueIntervals) =>
        IF var_name \in UnregisteredIntervals
        THEN /\ _normalise_var_name(var_name) \notin DOMAIN _VAR_TO_MAP
             /\ IsNaN(midpoint)
        ELSE /\ _normalise_var_name(var_name) \in DOMAIN _VAR_TO_MAP
             /\ IsKey(interval_code, _normalise_var_name(var_name)) => ~IsNaN(midpoint)

\* ---------------------------------------------------------------------------
\* Index suffixes of interval column names
\* ---------------------------------------------------------------------------

\* digit strings tried as index suffixes
DigitStrings == {"0", "3", "12", "007", "2017"}

\* name ends in "_" followed by one or more digits
HasDigitSuffix(name) ==
    \E k \in 1..(Len(name) - 1) :
        /\ SubSeq(name, k, k) = "_"
        /\ \A i \in (k + 1)..Len(name) : SubSeq(name, i, i) \in Digits

\* C14: get_midpoint is insensitive to one trailing _<digits> suffix: for a
\* registered base name x, every non-empty digit string d and every code,
\* get_midpoint(code, x_d) is get_midpoint(code, x); a name without such a
\* suffix is looked up unchanged.
C14_SuffixInsensitive ==
    pc = "done" =>
        /\ var_name \in DOMAIN _VAR_TO_MAP =>
               \A d \in DigitStrings :
                   get_midpoint(interval_code, var_name \o "_" \o d) = midpoint
        /\ HasDigitSuffix(var_name) =>
               \A k \in 1..Len(var_name) :
                   (SubSeq(var_name, k, k) = "_"
                        /\ isdigit(SubSeq(var_name, k + 1, Len(var_name)))) =>
                       midpoint = get_midpoint(interval_code, SubSeq(var_name, 1, k - 1))
        /\ ~HasDigitSuffix(var_name) => _normalise_var_name(var_name) = var_name

\* C14 witness: a call with an indexed name resolved to the midpoint of its
\* base name
C14_Witness ==
    /\ pc = "done"
    /\ var_name = Indexed("c2016it", 12)
    /\ ~IsNaN(midpoint)
    /\ midpoint = _VAR_TO_MAP["c2016it"][interval_code.n]

(***************************************************************************)
(* validate on schema lists of several entries: the schema is a list of    *)
(* constructed entries with pairwise distinct column names, the table has  *)
(* the column id and may have the column val; it never has the column gone. *)
(***************************************************************************)
\* most entries of a checked schema list
MaxEntries == 2
\* rows of the columns that are undefined in their first k rows
MaxMissingRows == 5

\* the values of a checked column
CheckValues == {NaN, Num(0), Num(1), Num(2), PosInf}

\* checked columns: the empty column, every pair of values, and columns
\* whose first k values are undefined and whose other values are 1
CheckColumns ==
    {<<>>}
    \cup {<<x, y>> : x, y \in CheckValues}
    \cup UNION { { [i \in 1..n |-> IF i <= k THEN NaN ELSE Num(1)] : k \in 0..n }
                 : n \in (MaxMissingRows - 1)..MaxMissingRows }

CheckTables ==
    { [id |-> c] : c \in CheckColumns }
    \cup { [id |-> c, val |-> [i \in DOMAIN c |-> Num(0)]] : c \in CheckColumns }

\* (dtype, min_value, max_value, allowed_values) of the checked entries: no
\* domain, a minimum, the range [1, 1], the binary values
CheckArgs ==
    { <<"FLOAT", <<>>, <<>>, <<>>>>, <<"FLOAT", <<Num(1)>>, <<>>, <<>>>>,
      <<"FLOAT", <<Num(1)>>, <<Num(1)>>, <<>>>>,
      <<"BINARY", <<>>, <<>>, <<{Num(0), Num(1)}>>>> }

\* the entries a checked schema is made of, those whose construction
\* returns: every kind of entry for id, entries without a domain or with a
\* minimum for val, one entry for gone
SchemaEntries ==
    { e \in { ColumnSchema(name, name, a[1], nullable, a[2], a[3], a[4]) :
                 name \in {"id", "val", "gone"}, nullable \in BOOLEAN, a \in CheckArgs } :
        /\ __post_init__(e) = ""
        /\ e.name = "val" => e.max_value = <<>> /\ e.allowed_values = <<>>
        /\ e.name = "gone" => e.nullable /\ e.max_value = <<>> /\ e.min_value # <<>> }

SchemaLists ==
    UNION { { l \in [1..n -> SchemaEntries] :
                \A i, j \in 1..n : i # j => l[i].name # l[j].name }
            : n \in 1..MaxEntries }

InitCheck ==
    /\ pc = "schema"
    /\ df \in CheckTables
    /\ schema \in SchemaLists
    /\ attempt = <<>>
    /\ report = <<>>
    /\ analysis_df = <<>>
    /\ model_specs = <<>>
    /\ results = <<>>
    /\ n_run = 0
    /\ run_log = <<>>
    /\ ind_df = <<>>
    /\ head_index = <<>>
    /\ head_log = <<>>
    /\ warnings = <<>>
    /\ error = ""
    /\ head_df = <<>>
    /\ n_hh = len(df)
    /\ cfg = Settings
    /\ debt_cols = <<>>
    /\ asset_cols = <<>>
    /\ interval_code = NaN
    /\ var_name = ""
    /\ midpoint = NaN

SpecCheck == InitCheck /\ [][Validate]_vars

\* the violations the report holds for a column, in order
ViolationsOf(name) == SelectSeq(report.violations, LAMBDA v : v.column = name)

\* the rules of the violations the report holds for a column
RulesOf(name) == {ViolationsOf(name)[i].rule : i \in DOMAIN ViolationsOf(name)}

\* C15: a schema entry whose column is absent from the table produces
\* exactly one violation, MISSING_COLUMN of severity ERROR, and no
\* nullability, range, allowed-set or infinity violation; the violations of
\* the other entries are those they produce when validated alone.
C15_MissingColumnOnly ==
    pc = "done" =>
        \A k \in DOMAIN schema :
            IF schema[k].name \notin DOMAIN df
            THEN /\ Len(ViolationsOf(schema[k].name)) = 1
                 /\ ViolationsOf(schema[k].name)[1].rule = "MISSING_COLUMN"
                 /\ ViolationsOf(schema[k].name)[1].severity = "ERROR"
            ELSE /\ "MISSING_COLUMN" \notin RulesOf(schema[k].name)
                 /\ ViolationsOf(schema[k].name) = validate(df, <<schema[k]>>).violations

\* C15 witness: an entry of an absent column listed before an entry of a
\* present column that has a violation of its own
C15_Witness ==
    /\ pc = "done"
    /\ Len(schema) = 2
    /\ schema[1].name \notin DOMAIN df
    /\ schema[2].name \in DOMAIN df
    /\ RulesOf(schema[1].name) = {"MISSING_COLUMN"}
    /\ "BELOW_MIN" \in RulesOf(schema[2].name)

\* the number of undefined values of a present column
Undefined(name) == Cardinality({i \in DOMAIN df[name] : IsNaN(df[name][i])})

\* the violations of the given rule the report holds for a column
RuleOf(name, rule) == SelectSeq(ViolationsOf(name), LAMBDA v : v.rule = rule)

\* C16: for a present nullable column a HIGH_MISSING violation of severity
\* WARNING is emitted iff the undefined fraction is strictly greater than
\* 80% (exactly 80% or less emits nothing); a report that holds only
\* WARNING violations has is_valid True, and is_valid is False exactly when
\* there is at least one ERROR violation.
C16_HighMissingAboveEighty ==
    pc = "done" =>
        /\ \A k \in DOMAIN schema :
               (schema[k].name \in DOMAIN df /\ schema[k].nullable) =>
                   LET name == schema[k].name
                       high == RuleOf(name, "HIGH_MISSING")
                   IN  /\ Len(high) = IF 5 * Undefined(name) > 4 * Len(df[name])
                                      THEN 1 ELSE 0
                       /\ \A i \in DOMAIN high : high[i].severity = "WARNING"
                       /\ "NOT_NULLABLE" \notin RulesOf(name)
        /\ (\A i \in DOMAIN report.violations :
                report.violations[i].severity = "WARNING") => is_valid(report)
        /\ ~is_valid(report) <=>
               \E i \in DOMAIN report.violations : report.violations[i].severity = "ERROR"

\* C16 witness: a nullable column with exactly 80% of its values undefined
\* (4 of 5) has no violation, and the report is valid
C16_Witness ==
    /\ pc = "done"
    /\ Len(schema) = 2
    /\ schema[1].name = "id" /\ schema[1].nullable
    /\ schema[2].name = "val" /\ schema[2].nullable /\ "val" \in DOMAIN df
    /\ Len(df["id"]) = 5 /\ Undefined("id") = 4
    /\ ViolationsOf("id") = <<>>
    /\ is_valid(report)

\* C16 witness: a report whose only violation is a HIGH_MISSING warning
C16_WarningOnly ==
    /\ pc = "done"
    /\ Len(report.violations) = 1
    /\ report.violations[1].rule = "HIGH_MISSING"
    /\ report.violations[1].severity = "WARNING"
    /\ is_valid(report)

\* C17: for a present column BELOW_MIN (ERROR) is emitted iff a minimum is
\* configured and a defined value is strictly below it, ABOVE_MAX (ERROR)
\* iff a maximum is configured and a defined value is strictly above it;
\* undefined values never trigger a range violation, and a column that is
\* all undefined yields no range, allowed-set or infinity violation.
C17_RangeOnDefinedValues ==
    pc = "done" =>
        \A k \in DOMAIN schema :
            schema[k].name \in DOMAIN df =>
                LET name == schema[k].name
                    defined == {i \in DOMAIN df[name] : ~IsNaN(df[name][i])}
                IN  /\ Len(RuleOf(name, "BELOW_MIN")) =
                           IF /\ schema[k].min_value # <<>>
                              /\ \E i \in defined : Lt(df[name][i], schema[k].min_value[1])
                           THEN 1 ELSE 0
                    /\ Len(RuleOf(name, "ABOVE_MAX")) =
                           IF /\ schema[k].max_value # <<>>
                              /\ \E i \in defined : Gt(df[name][i], schema[k].max_value[1])
                           THEN 1 ELSE 0
                    /\ \A i \in DOMAIN ViolationsOf(name) :
                           ViolationsOf(name)[i].rule \in {"BELOW_MIN", "ABOVE_MAX"} =>
                               ViolationsOf(name)[i].severity = "ERROR"
                    /\ defined = {} =>
                           RulesOf(name) \cap {"BELOW_MIN", "ABOVE_MAX", "INVALID_VALUES",
                                               "INFINITE_VALUES"} = {}

\* C17 witness: a column with an undefined value and a value equal to both
\* bounds has no range violation, and a column with a value on either side
\* of the bounds has both
C17_Witness ==
    /\ pc = "done"
    /\ Len(schema) = 1
    /\ schema[1].name = "id"
    /\ schema[1].min_value = <<Num(1)>> /\ schema[1].max_value = <<Num(1)>>
    /\ df["id"] = <<NaN, Num(1)>>
    /\ RulesOf("id") \cap {"BELOW_MIN", "ABOVE_MAX"} = {}

\* C17 witness: values on both sides of the range are reported once each
C17_BothSides ==
    /\ pc = "done"
    /\ df["id"] = <<Num(0), Num(2)>>
    /\ Len(schema) = 1
    /\ Len(RuleOf("id", "BELOW_MIN")) = 1
    /\ Len(RuleOf("id", "ABOVE_MAX")) = 1

(***************************************************************************)
(* Control variables (src/processing/controls.py).                         *)
(***************************************************************************)
\* np.where(test, 1.0, 0.0) alone: an undefined code fails the test and gets 0
IndicatorOfTest(series, codes) ==
    [i \in DOMAIN series |->
        IF \E c \in codes : Eq(series[i], Num(c)) THEN Num(1) ELSE Num(0)]

\* np.where(series == code, 1.0, 0.0), or series.isin(codes), followed by
\* df.loc[series.isna(), name] = np.nan
Indicator(series, codes) ==
    [i \in DOMAIN series |->
        IF IsNaN(series[i]) THEN NaN
        ELSE IF \E c \in codes : Eq(series[i], Num(c)) THEN Num(1) ELSE Num(0)]

\* np.log(x + 1) of one value
LogPlusOne(x) ==
    IF IsNaN(x) \/ x = NegInf THEN NaN
    ELSE IF x = PosInf THEN PosInf
    ELSE IF Gt(Add(x, Num(1)), Num(0)) THEN Ln(x, Num(1))
    ELSE IF Eq(Add(x, Num(1)), Num(0)) THEN NegInf
    ELSE NaN

\* build_controls(df): the table with the five control columns, and the
\* warnings logged, one for each absent source column
build_controls(d) ==
    LET has(c) == c \in DOMAIN d
        head_is_male == IF has("head_sex") THEN Indicator(d["head_sex"], {1})
                        ELSE Full(d, NaN)
        head_is_married == IF has("head_marital") THEN Indicator(d["head_marital"], {2, 3, 7})
                           ELSE Full(d, NaN)
        has_business == IF has("b2000b") THEN Indicator(d["b2000b"], {1})
                        ELSE Full(d, NaN)
        num_houses == IF has("c2002") THEN fillna(d["c2002"], Num(0))
                      ELSE Full(d, Num(0))
        log_total_assets == IF has("total_assets")
                            THEN [i \in DOMAIN d["total_assets"] |->
                                     LogPlusOne(d["total_assets"][i])]
                            ELSE Full(d, NaN)
        warn(c, msg) == IF has(c) THEN <<>> ELSE <<msg>>
    IN  [df |-> SetColumn(SetColumn(SetColumn(SetColumn(SetColumn(d,
                    "head_is_male", head_is_male),
                    "head_is_married", head_is_married),
                    "has_business", has_business),
                    "num_houses", num_houses),
                    "log_total_assets", log_total_assets),
         logged |-> warn("head_sex", "'head_sex' missing")
                    \o warn("head_marital", "'head_marital' missing")
                    \o warn("b2000b", "'b2000b' missing")
                    \o warn("c2002", "'c2002' missing")
                    \o warn("total_assets", "'total_assets' missing")]

\* most rows of a table given to build_controls
MaxControlRows == 2

\* the source columns of the controls
ControlSources == {"head_sex", "head_marital", "b2000b", "c2002", "total_assets"}

\* the answers of one household: sex, marital status, business ownership,
\* houses owned, total assets
ControlAnswers ==
    { [head_sex |-> Num(1), head_marital |-> Num(2), b2000b |-> Num(1),
       c2002 |-> Num(2), total_assets |-> Num(300)],
      [head_sex |-> Num(2), head_marital |-> Num(3), b2000b |-> Num(2),
       c2002 |-> NaN, total_assets |-> Num(0)],
      [head_sex |-> NaN, head_marital |-> NaN, b2000b |-> NaN,
       c2002 |-> Num(0), total_assets |-> NaN],
      [head_sex |-> Num(0), head_marital |-> Num(7), b2000b |-> Num(0),
       c2002 |-> Num(1), total_assets |-> Num(300)],
      [head_sex |-> Num(1), head_marital |-> Num(1), b2000b |-> NaN,
       c2002 |-> NaN, total_assets |-> Num(0)],
      [head_sex |-> NaN, head_marital |-> Num(5), b2000b |-> Num(1),
       c2002 |-> Num(2), total_assets |-> NaN] }

\* tables of up to MaxControlRows households holding hhid and any subset of
\* the source columns
ControlTables ==
    UNION { { [c \in {"hhid"} \cup present |->
                 IF c = "hhid" THEN HhidColumn(n) ELSE [i \in 1..n |-> rows[i][c]]]
              : rows \in [1..n -> ControlAnswers], present \in SUBSET ControlSources }
            : n \in 0..MaxControlRows }

InitControls ==
    /\ pc = "controls"
    /\ df \in ControlTables
    /\ cfg = Settings
    /\ debt_cols = <<>>
    /\ asset_cols = <<>>
    /\ interval_code = NaN
    /\ var_name = ""
    /\ midpoint = NaN
    /\ head_df = <<>>
    /\ n_hh = len(df)
    /\ error = ""
    /\ schema = <<>>
    /\ attempt = <<>>
    /\ report = <<>>
    /\ analysis_df = <<>>
    /\ model_specs = <<>>
    /\ results = <<>>
    /\ n_run = 0
    /\ run_log = <<>>
    /\ ind_df = <<>>
    /\ head_index = <<>>
    /\ head_log = <<>>
    /\ warnings = <<>>

\* pipeline step 7: build_controls(hh_df)
BuildControls ==
    /\ pc = "controls"
    /\ df' = build_controls(df).df
    /\ warnings' = warnings \o build_controls(df).logged
    /\ pc' = "select"
    /\ UNCHANGED <<runner_vars, cfg, debt_cols, asset_cols, midpoint_vars, merge_vars, validate_vars,
                   loader_vars>>

SpecControls == InitControls /\ [][BuildControls]_vars

\* the indicator the claim gives a code: undefined for an undefined code, 1
\* for a code of the set, 0 for any other code
IndicatorValue(code, codes) ==
    IF IsNaN(code) THEN NaN
    ELSE IF IsFinite(code) /\ code.d = 1 /\ code.n \in codes THEN Num(1)
    ELSE Num(0)

\* C19: build_controls derives each indicator row by row: head_is_male is 1
\* when the sex code is 1, 0 for any other defined code and undefined when
\* the code is undefined; head_is_married likewise for the marital codes
\* {2, 3, 7}; has_business likewise for b2000b = 1; so the three columns
\* hold only 0, 1 or undefined.
C19_IndicatorsRowByRow ==
    pc = "select" =>
        /\ \A p \in {<<"head_sex", "head_is_male", {1}>>,
                      <<"head_marital", "head_is_married", {2, 3, 7}>>,
                      <<"b2000b", "has_business", {1}>>} :
               p[1] \in DOMAIN df =>
                   \A i \in 1..len(df) :
                       df[p[2]][i] = IndicatorValue(df[p[1]][i], p[3])
        /\ \A c \in {"head_is_male", "head_is_married", "has_business"} :
               \A i \in 1..len(df) : df[c][i] \in {Num(0), Num(1), NaN}

\* C19 witness: two households, one with the codes of a married male
\* business owner, the other with all three codes undefined
C19_Witness ==
    /\ pc = "select"
    /\ len(df) = 2
    /\ ControlSources \subseteq DOMAIN df
    /\ df["head_sex"] = <<Num(1), NaN>>
    /\ df["head_is_male"] = <<Num(1), NaN>>
    /\ df["head_is_married"] = <<Num(1), NaN>>
    /\ df["has_business"] = <<Num(1), NaN>>

\* the source columns that df lacks (build_controls adds no source column)
AbsentSources == ControlSources \ DOMAIN df

\* C20: build_controls never raises for an absent source column: for any
\* subset of the five source columns missing it creates all five control
\* columns, fills the indicator or log column of an absent source with
\* undefined and num_houses with 0, and logs one warning per absent source.
C20_AbsentSourcesHandled ==
    /\ pc # "failed" /\ error = ""
    /\ pc = "select" =>
        /\ {"head_is_male", "head_is_married", "has_business", "num_houses",
             "log_total_assets"} \subseteq DOMAIN df
        /\ \A p \in {<<"head_sex", "head_is_male", NaN>>,
                      <<"head_marital", "head_is_married", NaN>>,
                      <<"b2000b", "has_business", NaN>>,
                      <<"c2002", "num_houses", Num(0)>>,
                      <<"total_assets", "log_total_assets", NaN>>} :
               p[1] \in AbsentSources =>
                   /\ Len(df[p[2]]) = Len(df["hhid"])
                   /\ \A i \in DOMAIN df[p[2]] : df[p[2]][i] = p[3]
        /\ Len(warnings) = Cardinality(AbsentSources)

\* C20 witness: a table of two households without any source column gets
\* the five control columns and five warnings
C20_Witness ==
    /\ pc = "select"
    /\ AbsentSources = ControlSources
    /\ Len(df["hhid"]) = 2
    /\ df["num_houses"] = <<Num(0), Num(0)>>
    /\ df["log_total_assets"] = <<NaN, NaN>>
    /\ Len(warnings) = 5

(***************************************************************************)
(* The pipeline (src/processing/pipeline.py): run_pipeline from the loaded *)
(* tables to the returned PipelineResult.                                  *)
(***************************************************************************)
\* ANALYSIS_SCHEMA (src/data/schema.py)
ANALYSIS_SCHEMA == <<
    ColumnSchema("hhid", "Household ID", "INT", FALSE, <<>>, <<>>, <<>>),
    ColumnSchema("head_siblings", "Number of siblings (head, age <= 40)", "FLOAT", TRUE,
                 <<Num(0)>>, <<Num(30)>>, <<>>),
    ColumnSchema("debt_ratio_winsorized", "Debt-to-asset ratio (winsorized 1%)", "FLOAT", TRUE,
                 <<Num(0)>>, <<>>, <<>>),
    ColumnSchema("log_debt_ratio_winsorized", "Log debt-to-asset ratio", "FLOAT", TRUE,
                 <<>>, <<>>, <<>>),
    ColumnSchema("total_debt", "Total household debt (CNY)", "FLOAT", TRUE,
                 <<Num(0)>>, <<>>, <<>>),
    ColumnSchema("total_assets", "Total household assets (CNY)", "FLOAT", TRUE,
                 <<Num(0)>>, <<>>, <<>>),
    ColumnSchema("head_age", "Head age (years)", "FLOAT", TRUE,
                 <<Num(16)>>, <<Num(120)>>, <<>>),
    ColumnSchema("head_is_male", "Head is male (1/0)", "BINARY", TRUE,
                 <<>>, <<>>, <<{Num(0), Num(1)}>>),
    ColumnSchema("head_educ", "Head education level", "CATEGORICAL", TRUE,
                 <<Num(1)>>, <<Num(9)>>, <<>>),
    ColumnSchema("head_is_married", "Head is married (1/0)", "BINARY", TRUE,
                 <<>>, <<>>, <<{Num(0), Num(1)}>>),
    ColumnSchema("head_health", "Head self-rated health (1=best .. 5=worst)", "CATEGORICAL",
                 TRUE, <<Num(1)>>, <<Num(5)>>, <<>>),
    ColumnSchema("has_business", "Household owns a business (1/0)", "BINARY", TRUE,
                 <<>>, <<>>, <<{Num(0), Num(1)}>>),
    ColumnSchema("num_houses", "Number of houses owned", "FLOAT", TRUE,
                 <<Num(0)>>, <<>>, <<>>),
    ColumnSchema("log_total_assets", "Log(total_assets + 1)", "FLOAT", TRUE,
                 <<Num(0)>>, <<>>, <<>>)
>>

\* run_pipeline step 8: the columns of the analysis table, in order
core_vars ==
    <<"hhid", "head_siblings", "debt_ratio_winsorized", "log_debt_ratio_winsorized",
      "total_debt", "total_assets">>

\* the answers of one household: c2064_1 (a debt), c2016_1 (an asset) and
\* c7062 (the business vehicle)
HouseholdAnswers ==
    { <<Num(1), NaN, Num(1)>>, <<Num(1), Num(2), NaN>> }

\* household tables of the pipeline: hhid 5 and 7 in turn
PipelineHouseholds ==
    UNION { { [hhid |-> [i \in 1..n |-> IF i % 2 = 1 THEN Num(5) ELSE Num(7)],
               c2064_1 |-> [i \in 1..n |-> a[i][1]],
               c2016_1 |-> [i \in 1..n |-> a[i][2]],
               c7062 |-> [i \in 1..n |-> a[i][3]]]
              : a \in [1..n -> HouseholdAnswers] }
            : n \in 0..MaxRows }

\* the persons of the pipeline's individual tables: heads of household 5
\* aged 40 and 15, a head of household 7 aged 41, a member who is no head
PipelinePersons ==
    { <<Num(5), Num(1), Num(1977), Num(2), Num(1)>>,
      <<Num(5), Num(1), Num(2002), NaN, NaN>>,
      <<Num(7), Num(1), Num(1976), Num(2), Num(1)>>,
      <<Num(5), Num(2), Num(1977), NaN, NaN>> }

\* individual tables of the pipeline, and one without the role column
PipelineIndividuals ==
    UNION { { IndividualTable(rows) : rows \in [1..n -> PipelinePersons] }
            : n \in 0..MaxIndividuals }
    \cup { WithoutColumns(IndividualTable(<<CHOOSE q \in PipelinePersons : TRUE>>), {"a2001"}) }

\* the state after step 1: hh_df, ind_df = load_raw_data(...); n_hh = len(hh_df)
InitPipeline ==
    /\ pc = "extract"
    /\ df \in PipelineHouseholds
    /\ ind_df \in PipelineIndividuals
    /\ n_hh = len(df)
    /\ cfg = Settings
    /\ head_df = <<>>
    /\ head_index = <<>>
    /\ head_log = <<>>
    /\ warnings = <<>>
    /\ error = ""
    /\ debt_cols = <<>>
    /\ asset_cols = <<>>
    /\ interval_code = NaN
    /\ var_name = ""
    /\ midpoint = NaN
    /\ schema = <<>>
    /\ attempt = <<>>
    /\ report = <<>>
    /\ analysis_df = <<>>
    /\ model_specs = <<>>
    /\ results = <<>>
    /\ n_run = 0
    /\ run_log = <<>>

\* pipeline step 8: analysis_df = hh_df[existing].copy(), with a warning for
\* the analysis columns that are missing
SelectColumns ==
    /\ pc = "select"
    /\ LET all_cols == core_vars \o cfg.head_control_vars \o cfg.hh_control_vars
           existing == SelectSeq(all_cols, LAMBDA c : c \in DOMAIN df)
           missing == SelectSeq(all_cols, LAMBDA c : c \notin DOMAIN df)
       IN  /\ analysis_df' = [c \in {existing[k] : k \in DOMAIN existing} |-> df[c]]
           /\ warnings' = warnings \o (IF missing # <<>>
                                        THEN <<"Missing analysis columns (excluded)">>
                                        ELSE <<>>)
    /\ pc' = "validate"
    /\ UNCHANGED <<runner_vars, feature_vars, merge_vars, midpoint_vars, loader_vars,
                   schema, attempt, report>>

\* pipeline step 9: report = validate(analysis_df), then the result is
\* returned with n_raw_households = n_hh and n_analysis_rows = len(analysis_df)
ValidateAnalysis ==
    /\ pc = "validate"
    /\ report' = validate(analysis_df, ANALYSIS_SCHEMA)
    /\ warnings' = warnings \o ValidateWarnings(validate(analysis_df, ANALYSIS_SCHEMA))
    /\ pc' = "returned"
    /\ UNCHANGED <<runner_vars, feature_vars, merge_vars, midpoint_vars, loader_vars,
                   schema, attempt, analysis_df>>

NextPipeline ==
    \/ ExtractHeads
    \/ MergeHeadIntoHousehold
    \/ CoalesceAll
    \/ ComputeTotals
    \/ ComputeDebtRatio
    \/ BuildControls
    \/ SelectColumns
    \/ ValidateAnalysis

SpecPipeline == InitPipeline /\ [][NextPipeline]_vars

\* the stages that follow the merge, and the return
AfterMerge == {"coalesce", "totals", "ratio", "controls", "select", "validate", "returned"}

\* C21: whenever run_pipeline returns a result, n_analysis_rows equals
\* n_raw_households: no stage after loading adds or drops household rows
\* (the table has n_hh rows after the merge and after every later stage),
\* and a run whose merge would change the row count ends in an exception.
C21_RowCountPreserved ==
    /\ pc \in AfterMerge => len(df) = n_hh
    /\ pc \in {"validate", "returned"} => len(analysis_df) = n_hh
    /\ pc = "failed" => error \in {"DataLoadError", "ValueError"}

\* C21 witness: a returned run of two households, one of them without a head
\* record, after an extraction that dropped a head row
C21_Witness ==
    /\ pc = "returned"
    /\ n_hh = 2
    /\ len(analysis_df) = 2
    /\ \E i \in 1..2 : IsNaN(analysis_df["head_age"][i])
    /\ \E i \in 1..2 : ~IsNaN(analysis_df["head_age"][i])
    /\ Len(ind_df["hhid"]) > len(head_df)

(***************************************************************************)
(* The vehicle adjustment of total_assets.                                 *)
(***************************************************************************)
\* the coalesced business-vehicle value of row i with undefined counted as 0
VehicleInBusiness(i) ==
    LET v == PrecedenceValue(df, ASSET_VEHICLE_IN_BUSINESS, i)
    IN  IF IsNaN(v) THEN Num(0) ELSE v

\* C22: after compute_totals, total_assets of every row is
\* max(0, total_assets_raw - v), v the coalesced business-vehicle value with
\* undefined counted as 0; total_assets is never negative
C22_VehicleAdjustmentClipped ==
    pc = "ratio" =>
        \A i \in 1..len(df) :
            LET diff == Sub(df["total_assets_raw"][i], VehicleInBusiness(i))
            IN  /\ df["total_assets"][i] = IF Lt(diff, Num(0)) THEN Num(0) ELSE diff
                /\ Ge(df["total_assets"][i], Num(0))

\* C22 witness: one row whose vehicle value exceeds its raw assets (clipped
\* to 0) and one row with raw assets above a positive vehicle value (the
\* difference stays)
C22_Witness ==
    /\ pc = "ratio"
    /\ \E i \in 1..len(df) :
           /\ Gt(VehicleInBusiness(i), df["total_assets_raw"][i])
           /\ df["total_assets"][i] = Num(0)
    /\ \E i \in 1..len(df) :
           /\ Gt(VehicleInBusiness(i), Num(0))
           /\ Gt(df["total_assets"][i], Num(0))
           /\ Lt(df["total_assets"][i], df["total_assets_raw"][i])

(***************************************************************************)
(* The columns coalesce_all leaves in the table.                           *)
(***************************************************************************)
\* the specs coalesce_all ensures source columns for
EnsuredSpecs == StoredSpecs \cup {ASSET_VEHICLE_IN_BUSINESS}

\* the source columns a spec names
SourceColumns(s) == {s.exact, s.interval} \ {None}

\* C23 as stated: after coalesce_all every debt, asset and business-vehicle
\* VarSpec has its exact column, its interval column and its <exact>_val
\* column in the table
C23_EverySpecStored ==
    pc = "totals" =>
        \A s \in EnsuredSpecs :
            /\ s.exact \in DOMAIN df
            /\ s.interval \in DOMAIN df
            /\ coalesced_name(s) \in DOMAIN df

\* C23: coalesce_all leaves every source column a debt, asset or
\* business-vehicle VarSpec names in the table, all-undefined when the input
\* lacked it and unchanged otherwise, and <exact>_val for every debt and
\* asset VarSpec; it creates no <exact>_val for the business-vehicle variable
C23_SourcesEnsuredValuesStored ==
    [][pc = "coalesce" =>
          /\ \A s \in EnsuredSpecs : \A c \in SourceColumns(s) :
                 /\ c \in DOMAIN df'
                 /\ c \in DOMAIN df => df'[c] = df[c]
                 /\ c \notin DOMAIN df =>
                        /\ Len(df'[c]) = len(df)
                        /\ \A i \in 1..len(df) : IsNaN(df'[c][i])
          /\ \A s \in StoredSpecs : coalesced_name(s) \in DOMAIN df'
          /\ coalesced_name(ASSET_VEHICLE_IN_BUSINESS) \in DOMAIN df'
                 <=> coalesced_name(ASSET_VEHICLE_IN_BUSINESS) \in DOMAIN df]_vars

\* C23 witness: after coalesce_all, a variable whose exact column holds an
\* answer and whose interval column is all-undefined, beside a variable with
\* both source columns all-undefined, and no <exact>_val of the business
\* vehicle
C23_Witness ==
    /\ pc = "totals"
    /\ \E s \in StoredSpecs :
           /\ s.interval # None
           /\ \E i \in 1..len(df) : ~IsNaN(df[s.exact][i])
           /\ \A i \in 1..len(df) : IsNaN(df[s.interval][i])
           /\ coalesced_name(s) \in DOMAIN df
    /\ \A c \in SourceColumns(ASSET_VEHICLE_IN_BUSINESS) :
           \A i \in 1..len(df) : IsNaN(df[c][i])
    /\ coalesced_name(ASSET_VEHICLE_IN_BUSINESS) \notin DOMAIN df

(***************************************************************************)
(* Winsorisation and the rows without a ratio.                             *)
(***************************************************************************)
\* the row positions with a defined finite debt_ratio, ascending
DefinedIndex == dropna_index(replace_inf(df["debt_ratio"]), 1)

\* C24: debt_ratio_winsorized is undefined exactly on the rows whose
\* debt_ratio is undefined or infinite, and every other row has the
\* winsorised value it has when the defined ratios are winsorised as a
\* column of their own (rows with undefined ratio neither enter the
\* winsorisation nor shift a value to another row)
C24_WinsorizedOverDefinedRows ==
    pc = "controls" =>
        /\ \A i \in Rows :
               IsNaN(df["debt_ratio_winsorized"][i]) <=> ~IsFinite(df["debt_ratio"][i])
        /\ LET index == DefinedIndex
               alone == WinsorizedColumn([k \in DOMAIN index |-> df["debt_ratio"][index[k]]],
                                         cfg)
           IN  \A k \in DOMAIN index : df["debt_ratio_winsorized"][index[k]] = alone[k]

\* C24 witness: a row with infinite ratio before two defined rows, its
\* winsorised value undefined, and a defined row altered by the
\* winsorisation
C24_Witness ==
    /\ pc = "controls"
    /\ IsInf(df["debt_ratio"][1])
    /\ IsNaN(df["debt_ratio_winsorized"][1])
    /\ Cardinality(DefinedRows) = 2
    /\ \E j \in DefinedRows :
           /\ IsFinite(df["debt_ratio_winsorized"][j])
           /\ df["debt_ratio_winsorized"][j] # df["debt_ratio"][j]

(***************************************************************************)
(* The stages of the pipeline and the columns of earlier stages.           *)
(***************************************************************************)
\* the positions from which the coalesce, totals, ratio and controls stages
\* start
LaterStages == {"coalesce", "totals", "ratio", "controls"}

\* C25: each of the stages coalesce, totals, ratio and controls leaves every
\* column the table had before it with the same values (the columns written
\* by the merge and by every earlier stage included): a stage only adds
\* columns
C25_StagesOnlyAddColumns ==
    [][(pc \in LaterStages) =>
          \A c \in DOMAIN df : c \in DOMAIN df' /\ (df'[c] = df[c])]_vars

\* C25 witness: after the controls stage the table holds a column of every
\* stage, with a coalesced value that stayed undefined beside a total of 0
\* and a head row joined by the merge
C25_Witness ==
    /\ pc = "select"
    /\ {"head_age", "c2064_1_val", "total_debt", "debt_ratio", "head_is_male"}
           \subseteq DOMAIN df
    /\ \E i \in 1..len(df) :
           /\ IsNaN(df["c2016_1_val"][i])
           /\ ~IsNaN(df["head_age"][i])
           /\ ~IsNaN(df["total_assets"][i])
           /\ ~IsNaN(df["head_is_male"][i])

(***************************************************************************)
(* The log records of extract_heads.                                       *)
(***************************************************************************)
\* the head rows of ind_df, those the age filter removes, the rows
\* de-duplication removes and the rows whose sibling count is overridden
HeadRows == {i \in 1..len(ind_df) : Eq(ind_df["a2001"][i], Num(1))}
AgeDropped == Cardinality({i \in HeadRows : ~PassingHead(i)})
DuplicatesDropped == Cardinality({i \in HeadRows : PassingHead(i)}) - Len(head_index)
SiblingsOverridden ==
    Cardinality({i \in HeadRows :
                    PassingHead(i) /\ Gt(HeadAge(ind_df, cfg, i), Num(cfg.sibling_max_age))})

\* the messages of the records that carry the count given
MessagesWith(count) ==
    {head_log[k].message : k \in {m \in DOMAIN head_log : head_log[m].count = count}}

\* the records about the heads found, the age filter and the rows kept
TotalsAndAgeMessages ==
    {"Identified household heads", "Dropped heads aged below the minimum",
     "Prepared head records for merge"}

\* C26: when extract_heads returns, every removal has its log record with
\* the count: the heads dropped by the age filter, the rows dropped by the
\* de-duplication, and the sibling counts overridden above the age ceiling
C26_EveryRemovalLogged ==
    pc = "merge" =>
        /\ AgeDropped > 0 =>
               "Dropped heads aged below the minimum" \in MessagesWith(AgeDropped)
        /\ DuplicatesDropped > 0 =>
               MessagesWith(DuplicatesDropped) \ TotalsAndAgeMessages # {}
        /\ SiblingsOverridden > 0 =>
               MessagesWith(SiblingsOverridden) \ TotalsAndAgeMessages # {}

\* what the records do carry: the heads found, the heads the age filter
\* dropped (only when there are any) and the rows kept
C26_AgeFilterLogged ==
    pc = "merge" =>
        /\ "Identified household heads" \in MessagesWith(Cardinality(HeadRows))
        /\ AgeDropped > 0 <=>
               "Dropped heads aged below the minimum" \in MessagesWith(AgeDropped)
        /\ "Prepared head records for merge" \in MessagesWith(Len(head_index))
        /\ \A k \in DOMAIN head_log : head_log[k].message \in TotalsAndAgeMessages

(***************************************************************************)
(* The ages of the heads returned, and the order of filter and             *)
(* de-duplication.                                                         *)
(***************************************************************************)
\* C28: every record extract_heads returns has a defined head_age of at
\* least cfg.head_min_age, and no head row with an undefined birth year is
\* among the rows returned
C28_ReturnedHeadsOfAge ==
    pc = "merge" =>
        /\ \A j \in DOMAIN head_index :
               /\ ~IsNaN(head_df["head_age"][j])
               /\ ~Lt(head_df["head_age"][j], Num(cfg.head_min_age))
               /\ head_df["head_age"][j]
                      = Sub(Num(cfg.survey_year), ind_df["a2005"][head_index[j]])
        /\ \A i \in HeadRows :
               IsNaN(ind_df["a2005"][i]) => \A j \in DOMAIN head_index : head_index[j] # i

\* C28 witness: a head without birth year is removed beside a head exactly
\* at the minimum age, who is returned
C28_Witness ==
    /\ pc = "merge"
    /\ \E i \in HeadRows : IsNaN(ind_df["a2005"][i])
    /\ \E j \in DOMAIN head_index : head_df["head_age"][j] = Num(cfg.head_min_age)

\* C29: de-duplication acts on the rows that survived the age filter: every
\* household with a head row that passes the filter gets exactly one record,
\* and it is that household's first passing row even when an earlier head
\* row of the household fails the filter
C29_DeduplicationAfterFilter ==
    pc = "merge" =>
        \A i \in HeadRows :
            PassingHead(i) =>
                /\ Cardinality({j \in DOMAIN head_index :
                                   head_df["hhid"][j] = ind_df["hhid"][i]}) = 1
                /\ (~\E m \in 1..(i - 1) : PassingHead(m) /\ ind_df["hhid"][m] = ind_df["hhid"][i])
                       => \E j \in DOMAIN head_index : head_index[j] = i

\* C29 witness: the first head row of a household fails the age filter, the
\* second passes and is the household's record
C29_Witness ==
    /\ pc = "merge"
    /\ len(ind_df) = 2
    /\ ind_df["hhid"][1] = ind_df["hhid"][2]
    /\ 1 \in HeadRows /\ ~PassingHead(1)
    /\ PassingHead(2)
    /\ head_index = <<2>>
    /\ head_df["head_sex"] = <<Num(2)>>

(***************************************************************************)
(* Winsorisation keeps the order and the range of the defined ratios.      *)
(***************************************************************************)
\* limit * n < 1, so that floor(limit * n) = 0
BelowOneRow(limit, n) == limit.n * n < limit.d

\* C30: over the rows with a defined ratio, winsorisation keeps the order
\* (ratio_i <= ratio_j implies winsorized_i <= winsorized_j), every
\* winsorised value lies between the smallest and the largest defined ratio,
\* and when floor(limit * n) is 0 at both tails the winsorised value of
\* every defined row is its ratio
C30_OrderAndRangeKept ==
    pc = "controls" =>
        LET ratio == df["debt_ratio"]
            win == df["debt_ratio_winsorized"]
            n == Cardinality(DefinedRows)
        IN  /\ \A i, j \in DefinedRows : Le(ratio[i], ratio[j]) => Le(win[i], win[j])
            /\ \A i \in DefinedRows :
                   \E a, b \in DefinedRows : Le(ratio[a], win[i]) /\ Le(win[i], ratio[b])
            /\ (BelowOneRow(limit_lo, n) /\ BelowOneRow(limit_hi, n))
                   => \A i \in DefinedRows : win[i] = ratio[i]

\* C30 witness: three distinct defined ratios under the default limits of
\* 0.01, where floor(0.01 * 3) = 0 and the winsorised column is the ratio
C30_Witness ==
    /\ pc = "controls"
    /\ limit_lo = Rat(1, 100) /\ limit_hi = Rat(1, 100)
    /\ Cardinality(DefinedRows) = 3
    /\ DistinctRatios
    /\ \A i \in DefinedRows : df["debt_ratio_winsorized"][i] = df["debt_ratio"][i]

(***************************************************************************)
(* The model runner (src/models/runner.py).                                *)
(***************************************************************************)
\* ModelSpec: the fields the runner reads
ModelSpec(name, estimator, dep_var, indep_vars) ==
    [name |-> name, estimator |-> estimator, dep_var |-> dep_var, indep_vars |-> indep_vars]

\* ModelResult: the spec it was estimated from and the rows used
ModelResult(spec, n_obs) == [spec |-> spec, n_obs |-> n_obs]

\* Dispatch table
_ESTIMATORS ==
    [e \in {"OLS", "RIDGE", "RLM"} |->
        IF e = "OLS" THEN "estimate_ols"
        ELSE IF e = "RIDGE" THEN "estimate_ridge" ELSE "estimate_rlm"]

\* Listwise deletion + finite-value filtering for one model: the columns
\* kept and the index of the rows kept
_prepare_data(d, spec) ==
    LET cols_needed == <<spec.dep_var>> \o SelectSeq(spec.indep_vars, LAMBDA c : c \in DOMAIN d)
        existing == SelectSeq(cols_needed, LAMBDA c : c \in DOMAIN d)
        complete == SelectSeq(Positions(d),
                              LAMBDA i : \A k \in DOMAIN existing : ~IsNaN(d[existing[k]][i]))
    IN  [columns |-> {existing[k] : k \in DOMAIN existing},
         index |-> IF spec.dep_var \in DOMAIN d
                   THEN SelectSeq(complete, LAMBDA i : IsFinite(d[spec.dep_var][i]))
                   ELSE complete]

\* min_obs with one row fewer asked for
min_obs_plus_one(spec) == Len(spec.indep_vars) + 1

\* min_obs = len(spec.indep_vars) + 2
min_obs(spec) == Len(spec.indep_vars) + 2

\* run_model(df, spec): the value returned, <<>> for None and <<result>> for
\* a ModelResult, and the error records logged.  fit is what the estimator does with data it can
\* read: "fitted" or "raises"; without the dependent variable it raises
\* KeyError
run_model(d, spec, fit) ==
    LET clean == _prepare_data(d, spec)
    IN  IF Len(clean.index) < min_obs(spec)
        THEN [result |-> <<>>, logged |-> << <<spec.name, "Insufficient observations">> >>]
        ELSE IF spec.estimator \notin DOMAIN _ESTIMATORS
        THEN [result |-> <<>>, logged |-> << <<spec.name, "Unknown estimator">> >>]
        ELSE IF spec.dep_var \notin clean.columns \/ fit = "raises"
        THEN [result |-> <<>>, logged |-> << <<spec.name, "Estimation failed">> >>]
        ELSE [result |-> <<ModelResult(spec, Len(clean.index))>>, logged |-> <<>>]

\* most specs handed to run_all, and most rows of the analysis table
MaxModels == 2
MaxModelRows == 3

\* (y, x) of one row of the analysis table
ModelRows == {<<Num(1), Num(1)>>, <<NaN, Num(1)>>, <<Num(1), NaN>>, <<PosInf, Num(1)>>}

\* analysis tables with the dependent variable y and a regressor x, and the
\* same tables without y
ModelTables ==
    UNION { { WithoutColumns([hhid |-> HhidColumn(n),
                              y |-> [i \in 1..n |-> rows[i][1]],
                              x |-> [i \in 1..n |-> rows[i][2]]], drop)
                : rows \in [1..n -> ModelRows], drop \in {{}, {"y"}} }
            : n \in 0..MaxModelRows }

\* the specs tried: one per dispatch entry and one whose tag has none; z is
\* a regressor the table lacks
SpecChoices ==
    { [estimator |-> "OLS", indep_vars |-> <<"x">>],
      [estimator |-> "RLM", indep_vars |-> <<>>],
      [estimator |-> "RIDGE", indep_vars |-> <<"x", "z">>],
      [estimator |-> "GMM", indep_vars |-> <<>>] }

ModelNames == <<"M1", "M2", "M3", "M4">>

\* spec lists of up to MaxModels specs, named by position
ModelSpecLists ==
    UNION { { [k \in 1..n |-> ModelSpec(ModelNames[k], choice[k].estimator, "y",
                                        choice[k].indep_vars)]
                : choice \in [1..n -> SpecChoices] }
            : n \in 0..MaxModels }

InitRunner ==
    /\ pc = "models"
    /\ analysis_df \in ModelTables
    /\ model_specs \in ModelSpecLists
    /\ results = <<>>
    /\ n_run = 0
    /\ run_log = <<>>
    /\ df = <<>>
    /\ cfg = Settings
    /\ debt_cols = <<>>
    /\ asset_cols = <<>>
    /\ interval_code = NaN
    /\ var_name = ""
    /\ midpoint = NaN
    /\ head_df = <<>>
    /\ n_hh = 0
    /\ error = ""
    /\ schema = <<>>
    /\ attempt = <<>>
    /\ report = <<>>
    /\ ind_df = <<>>
    /\ head_index = <<>>
    /\ head_log = <<>>
    /\ warnings = <<>>

\* run_all, one iteration of the loop: result = run_model(df, spec), kept
\* when it is not None
RunModel ==
    /\ pc = "models"
    /\ n_run < Len(model_specs)
    /\ \E fit \in {"fitted", "raises"} :
           LET r == run_model(analysis_df, model_specs[n_run + 1], fit)
           IN  /\ results' = IF r.result # <<>> THEN results \o r.result ELSE results
               /\ run_log' = run_log \o r.logged
    /\ n_run' = n_run + 1
    /\ UNCHANGED <<pc, model_specs, midpoint_vars, feature_vars, merge_vars, validate_vars,
                   loader_vars, warnings>>

\* run_all, after the loop: return results
ReturnResults ==
    /\ pc = "models"
    /\ n_run = Len(model_specs)
    /\ pc' = "returned"
    /\ UNCHANGED <<runner_vars, midpoint_vars, feature_vars, merge_vars, validate_vars,
                   loader_vars, warnings>>

NextRunner == RunModel \/ ReturnResults

SpecRunner == InitRunner /\ [][NextRunner]_vars

\* the rows of the analysis table a spec can be estimated on: defined in the
\* dependent variable and in every regressor the table has, with a finite
\* dependent variable
CompleteRows(spec) ==
    {i \in 1..len(analysis_df) :
        \A c \in ({spec.dep_var} \cup {spec.indep_vars[k] : k \in DOMAIN spec.indep_vars})
                    \cap DOMAIN analysis_df :
            /\ ~IsNaN(analysis_df[c][i])
            /\ c = spec.dep_var => ~IsInf(analysis_df[c][i])}

\* the reasons for which run_model skips the spec at position k
TooFewRows(k) ==
    Cardinality(CompleteRows(model_specs[k])) < Len(model_specs[k].indep_vars) + 2
NoDispatchEntry(k) == model_specs[k].estimator \notin {"OLS", "RIDGE", "RLM"}
EstimatorRaised(k) ==
    \E m \in DOMAIN run_log : run_log[m] = <<model_specs[k].name, "Estimation failed">>

\* the position of the spec of the j-th result in the specs list
SpecPosition(j) == CHOOSE k \in DOMAIN model_specs : model_specs[k] = results[j].spec

\* C27: the results are those of the successfully estimated models, a
\* subsequence of the specs list in its order: a spec with too few complete
\* rows, with an estimator tag outside the dispatch table or whose
\* estimator raised has no result, every other spec processed has one, and
\* run_all returns only after the loop has processed every spec
C27_SkippedSpecsOnly ==
    /\ pc \in {"models", "returned"}
    /\ error = ""
    /\ \A j \in DOMAIN results :
           /\ results[j].spec \in {model_specs[k] : k \in 1..n_run}
           /\ \A i \in DOMAIN results : i < j => SpecPosition(i) < SpecPosition(j)
    /\ \A k \in 1..n_run :
           (TooFewRows(k) \/ NoDispatchEntry(k) \/ EstimatorRaised(k))
               <=> ~\E j \in DOMAIN results : results[j].spec = model_specs[k]
    /\ pc = "returned" => n_run = Len(model_specs)

\* C27 witness: run_all has returned the result of the second spec after
\* skipping the first for too few rows, or for its unknown tag, or because
\* its estimator raised
C27_Witness ==
    /\ pc = "returned"
    /\ Len(model_specs) = 2
    /\ TooFewRows(1) \/ NoDispatchEntry(1) \/ EstimatorRaised(1)
    /\ Len(results) = 1
    /\ results[1].spec = model_specs[2]

\* C27 witness for each reason by itself
C27_WitnessTooFewRows ==
    /\ C27_Witness
    /\ TooFewRows(1) /\ ~NoDispatchEntry(1) /\ ~EstimatorRaised(1)
C27_WitnessNoDispatchEntry ==
    /\ C27_Witness
    /\ ~TooFewRows(1) /\ NoDispatchEntry(1) /\ ~EstimatorRaised(1)
C27_WitnessEstimatorRaised ==
    /\ C27_Witness
    /\ ~TooFewRows(1) /\ ~NoDispatchEntry(1) /\ EstimatorRaised(1)

==============================================================================
